---- MODULE Spec2Model ----
(***************************************************************************)
(* Verification model of the `agents` template engine:                     *)
(*   - src/src/parse.rs    template parser and guard-expression parser     *)
(*   - src/src/expr.rs     guard evaluation (Expr::is_match)               *)
(*   - src/src/template.rs rendering (Template::render, render_blocks)     *)
(*                                                                         *)
(* Text is modelled as a sequence of one-character strings; a cursor `idx` *)
(* is the 0-based offset of the Rust code, so the character under the      *)
(* cursor is s[idx + 1].  All characters used are ASCII, so byte offsets   *)
(* and character offsets coincide.                                         *)
(***************************************************************************)
EXTENDS Integers, Sequences, FiniteSets, TLC

\* ------------------------------------------------------------------------
\* Characters and string primitives (Rust str methods used by the parsers)
\* ------------------------------------------------------------------------

\* char::is_whitespace, restricted to the characters the inputs use
is_whitespace(ch) == ch \in {" ", "\n", "\t", "\r"}

\* char::is_alphanumeric, restricted to the characters the inputs use
is_alphanumeric(ch) ==
    ch \in {"a","b","c","d","e","f","g","h","i","j","k","l","m","n","o","p",
            "q","r","s","t","u","v","w","x","y","z",
            "A","B","C","D","E","F","G","H","I","J","K","L","M","N","O","P",
            "Q","R","S","T","U","V","W","X","Y","Z",
            "0","1","2","3","4","5","6","7","8","9"}

\* &s[from..to] with 0-based, end-exclusive offsets
Slice(s, from, to) == SubSeq(s, from + 1, to)

\* s[idx..].starts_with(pat)
starts_with(s, idx, pat) ==
    /\ idx + Len(pat) <= Len(s)
    /\ \A k \in 1..Len(pat) : s[idx + k] = pat[k]

RECURSIVE str_find(_, _, _), skip_ws(_, _), trim_start(_, _), trim_end(_, _)

\* s[idx..].find(pat).map(|i| idx + i): the first offset at or after idx where
\* pat starts; None is modelled as -1
str_find(s, idx, pat) ==
    IF idx + Len(pat) > Len(s) THEN -1
    ELSE IF starts_with(s, idx, pat) THEN idx
    ELSE str_find(s, idx + 1, pat)

\* str::trim: strip leading and trailing whitespace
trim_start(s, i) ==
    IF i > Len(s) \/ ~is_whitespace(s[i]) THEN i ELSE trim_start(s, i + 1)

trim_end(s, i) ==
    IF i < 1 \/ ~is_whitespace(s[i]) THEN i ELSE trim_end(s, i - 1)

trim(s) == SubSeq(s, trim_start(s, 1), trim_end(s, Len(s)))

\* skip_ws of both parsers: advance the cursor over whitespace
skip_ws(s, idx) ==
    IF idx >= Len(s) \/ ~is_whitespace(s[idx + 1]) THEN idx ELSE skip_ws(s, idx + 1)

\* Result values: Ok carries the value (and, for the parsers, the cursor after
\* it); Err carries the Error variant, its message and the formatted argument
Ok(v, i)          == [ok |-> TRUE, val |-> v, idx |-> i]
ErrArg(msg, a)    == [ok |-> FALSE, kind |-> "Template", err |-> msg, arg |-> a]
Err(msg)          == ErrArg(msg, <<>>)
NoResult          == [st |-> "none"]

\* the `?` operator: an Err is returned as it is, an Ok value is passed on
Try(r, K(_))      == IF ~r.ok THEN r ELSE K(r)

\* ------------------------------------------------------------------------
\* Expr / Matcher AST (src/src/expr.rs)
\* ------------------------------------------------------------------------
Exists(p)        == [k |-> "Exists", arg |-> p]
EnvExists(n)     == [k |-> "EnvExists", name |-> n]
EnvEquals(n, v)  == [k |-> "EnvEquals", name |-> n, value |-> v]
Lang(n)          == [k |-> "Lang", arg |-> n]

MatcherE(m) == [t |-> "Matcher", m |-> m]
And(a, b)   == [t |-> "And", a |-> a, b |-> b]
Or(a, b)    == [t |-> "Or", a |-> a, b |-> b]
Not(e)      == [t |-> "Not", e |-> e]

\* ------------------------------------------------------------------------
\* ExprParser (src/src/parse.rs)
\* ------------------------------------------------------------------------
RECURSIVE parse_or(_, _), parse_or_loop(_, _, _), parse_and(_, _),
          parse_and_loop(_, _, _), parse_not(_, _), parse_primary(_, _),
          parse_primary_at(_, _),
          parse_quoted_loop(_, _, _, _), parse_raw_loop(_, _, _),
          bare_end(_, _), token_bare_end(_, _)

\* ExprParser::consume: the cursor after `pat`, or -1 when it does not match
consume(s, idx, pat) == IF starts_with(s, idx, pat) THEN idx + Len(pat) ELSE -1

\* consume_ident without the look at the character after the keyword
consume_ident_any_suffix(s, idx, ident) == consume(s, idx, ident)

\* ExprParser::consume_ident: the cursor after the keyword, or -1
consume_ident(s, idx, ident) ==
    LET i == idx + Len(ident)
    IN IF ~starts_with(s, idx, ident) THEN -1
       ELSE IF i < Len(s) /\ (is_alphanumeric(s[i + 1]) \/ s[i + 1] = "_") THEN -1
       ELSE i

\* ExprParser::read_until: [ok, val = the text before delim, idx = at delim]
ExprParser_read_until(s, idx, delim) ==
    LET pos == str_find(s, idx, delim)
    IN IF pos # -1 THEN Ok(Slice(s, idx, pos), pos)
       ELSE ErrArg("missing '{delim}' in expression", delim)

\* the while loop of parse_quoted_string
parse_quoted_loop(s, idx, quote, out) ==
    IF idx >= Len(s) THEN Err("unterminated string")
    ELSE LET ch == s[idx + 1] IN
         IF ch = quote THEN Ok(out, idx + 1)
         ELSE IF ch = "\\" THEN
              IF idx + 1 >= Len(s) THEN Err("unterminated escape")
              ELSE LET esc == s[idx + 2]
                       dec == CASE esc = "n"  -> <<"\n">>
                                [] esc = "r"  -> <<"\r">>
                                [] esc = "t"  -> <<"\t">>
                                [] esc = "\\" -> <<"\\">>
                                [] esc = "'"  -> <<"'">>
                                [] esc = "\"" -> <<"\"">>
                                [] OTHER      -> <<"\\", esc>>
                   IN parse_quoted_loop(s, idx + 2, quote, out \o dec)
         ELSE parse_quoted_loop(s, idx + 1, quote, Append(out, ch))

\* ExprParser::parse_quoted_string
parse_quoted_string(s, idx) ==
    IF idx >= Len(s) THEN Err("expected quote")
    ELSE parse_quoted_loop(s, idx + 1, s[idx + 1], <<>>)

\* the while loop of parse_raw_string
parse_raw_loop(s, start, idx) ==
    IF idx >= Len(s) THEN Err("unterminated raw string")
    ELSE IF s[idx + 1] = "\"" THEN Ok(Slice(s, start, idx), idx + 1)
    ELSE parse_raw_loop(s, start, idx + 1)

\* ExprParser::parse_raw_string
parse_raw_string(s, idx) ==
    IF consume(s, idx, <<"\"">>) = -1 THEN Err("expected quote after r")
    ELSE parse_raw_loop(s, idx + 1, idx + 1)

\* the bare-token loop of parse_string_like: stops at whitespace or ')'
bare_end(s, idx) ==
    IF idx >= Len(s) \/ is_whitespace(s[idx + 1]) \/ s[idx + 1] = ")" THEN idx
    ELSE bare_end(s, idx + 1)

\* ExprParser::parse_string_like
parse_string_like(s, idx0) ==
    LET idx == skip_ws(s, idx0) IN
    IF idx < Len(s) /\ s[idx + 1] \in {"\"", "'"} THEN parse_quoted_string(s, idx)
    ELSE IF idx + 1 < Len(s) /\ s[idx + 1] = "r" /\ s[idx + 2] = "\""
         THEN parse_raw_string(s, idx + 1)
    ELSE LET e == bare_end(s, idx)
         IN IF e = idx THEN Err("expected string") ELSE Ok(Slice(s, idx, e), e)

\* the bare-token loop of parse_token: stops at whitespace, '=' or ')'
token_bare_end(s, i) ==
    IF i >= Len(s) \/ is_whitespace(s[i + 1]) \/ s[i + 1] \in {"=", ")"} THEN i
    ELSE token_bare_end(s, i + 1)

\* parse_token: [ok, val = the decoded token, idx = offset after it]
parse_token(s) ==
    IF s = <<>> THEN Ok(<<>>, 0)
    ELSE IF s[1] \in {"\"", "'"} THEN parse_quoted_string(s, 0)
    ELSE IF Len(s) > 1 /\ s[1] = "r" /\ s[2] = "\"" THEN parse_raw_string(s, 1)
    ELSE Ok(Slice(s, 0, token_bare_end(s, 0)), token_bare_end(s, 0))

\* parse_env_arg, lines 367-386: what follows the name n in the trimmed text s
parse_env_value(s, n) ==
    LET i == skip_ws(s, n.idx) IN
    IF i >= Len(s) \/ ~starts_with(s, i, <<"=">>)
    THEN Ok([name |-> n.val, has_value |-> FALSE, value |-> <<>>], 0)
    ELSE Try(parse_token(Slice(s, skip_ws(s, i + 1), Len(s))),
             LAMBDA v : Ok([name |-> n.val, has_value |-> TRUE, value |-> v.val], 0))

\* parse_env_arg without the check for an empty name
parse_env_arg_no_name_check(s0) ==
    IF trim(s0) = <<>> THEN Err("empty env() argument")
    ELSE Try(parse_token(trim(s0)), LAMBDA n : parse_env_value(trim(s0), n))

\* parse_env_arg: [ok, val = [name, has_value, value]]
parse_env_arg(s0) ==
    IF trim(s0) = <<>> THEN Err("empty env() argument")
    ELSE Try(parse_token(trim(s0)),
             LAMBDA n : IF n.val = <<>> THEN Err("empty env var name")
                        ELSE parse_env_value(trim(s0), n))

\* parse_primary, lines 204-210: the matcher for the text c between `env(`
\* and the next `)`
env_matcher(c) ==
    Try(parse_env_arg(trim(c.val)),
        LAMBDA a : Ok(MatcherE(IF a.val.has_value
                               THEN EnvEquals(a.val.name, a.val.value)
                               ELSE EnvExists(a.val.name)),
                      c.idx + 1))

\* the `env` arm of parse_primary, entered with the cursor after the keyword
parse_primary_env(s, idx0) ==
    IF consume(s, skip_ws(s, idx0), <<"(">>) = -1 THEN Err("expected '(' after env")
    ELSE Try(ExprParser_read_until(s, skip_ws(s, consume(s, skip_ws(s, idx0), <<"(">>)), <<")">>),
             LAMBDA c : env_matcher(c))

\* the closing parenthesis after the value r: `expected ')'` when it is missing
expect_close(s, r) ==
    IF consume(s, skip_ws(s, r.idx), <<")">>) = -1 THEN Err("expected ')'")
    ELSE Ok(r.val, consume(s, skip_ws(s, r.idx), <<")">>))

\* ExprParser::parse_paren_string
parse_paren_string(s, idx0) ==
    IF consume(s, skip_ws(s, idx0), <<"(">>) = -1 THEN Err("expected '('")
    ELSE Try(parse_string_like(s, skip_ws(s, consume(s, skip_ws(s, idx0), <<"(">>))),
             LAMBDA r : expect_close(s, r))

kwExists == <<"e","x","i","s","t","s">>
kwLang   == <<"l","a","n","g">>
kwEnv    == <<"e","n","v">>

\* ExprParser::parse_primary, entered with the cursor after whitespace
parse_primary_at(s, idx) ==
    IF consume(s, idx, <<"(">>) # -1 THEN
        Try(parse_or(s, idx + 1), LAMBDA e : expect_close(s, e))
    ELSE IF consume_ident(s, idx, kwExists) # -1 THEN
        Try(parse_paren_string(s, consume_ident(s, idx, kwExists)),
            LAMBDA a : Ok(MatcherE(Exists(a.val)), a.idx))
    ELSE IF consume_ident(s, idx, kwLang) # -1 THEN
        Try(parse_paren_string(s, consume_ident(s, idx, kwLang)),
            LAMBDA a : Ok(MatcherE(Lang(a.val)), a.idx))
    ELSE IF consume_ident(s, idx, kwEnv) # -1 THEN
        parse_primary_env(s, consume_ident(s, idx, kwEnv))
    ELSE Err("expected matcher or '('")

\* ExprParser::parse_primary
parse_primary(s, idx0) == parse_primary_at(s, skip_ws(s, idx0))

\* ExprParser::parse_not, entered with the cursor after whitespace
parse_not_at(s, idx) ==
    IF consume(s, idx, <<"!">>) # -1
    THEN Try(parse_not(s, idx + 1), LAMBDA inner : Ok(Not(inner.val), inner.idx))
    ELSE parse_primary(s, idx)

\* ExprParser::parse_not
parse_not(s, idx0) == parse_not_at(s, skip_ws(s, idx0))

\* the loop of parse_and, entered with the cursor after whitespace
parse_and_loop_at(s, left, idx) ==
    IF consume(s, idx, <<"&","&">>) # -1
    THEN Try(parse_not(s, idx + 2),
             LAMBDA right : parse_and_loop(s, And(left, right.val), right.idx))
    ELSE Ok(left, idx)

\* the loop of parse_and
parse_and_loop(s, left, idx0) == parse_and_loop_at(s, left, skip_ws(s, idx0))

\* ExprParser::parse_and
parse_and(s, idx) ==
    Try(parse_not(s, idx), LAMBDA left : parse_and_loop(s, left.val, left.idx))

\* the loop of parse_or, entered with the cursor after whitespace
parse_or_loop_at(s, left, idx) ==
    IF consume(s, idx, <<"|","|">>) # -1
    THEN Try(parse_and(s, idx + 2),
             LAMBDA right : parse_or_loop(s, Or(left, right.val), right.idx))
    ELSE Ok(left, idx)

\* parse_or_loop with the right operand of `||` read at the level of `!`
parse_or_loop_right_not(s, left, idx0) ==
    IF consume(s, skip_ws(s, idx0), <<"|","|">>) # -1
    THEN Try(parse_not(s, skip_ws(s, idx0) + 2),
             LAMBDA right : parse_or_loop(s, Or(left, right.val), right.idx))
    ELSE Ok(left, skip_ws(s, idx0))

\* the loop of parse_or
parse_or_loop(s, left, idx0) == parse_or_loop_at(s, left, skip_ws(s, idx0))

\* ExprParser::parse_or
parse_or(s, idx) ==
    Try(parse_and(s, idx), LAMBDA left : parse_or_loop(s, left.val, left.idx))

\* parse_expr without the check for trailing characters
parse_expr_no_trailing_check(s) ==
    Try(parse_or(s, 0), LAMBDA e : Ok(e.val, Len(s)))

\* ExprParser::parse_expr
parse_expr(s) ==
    Try(parse_or(s, 0),
        LAMBDA e : IF skip_ws(s, e.idx) # Len(s)
                   THEN Err("trailing characters in expression")
                   ELSE Ok(e.val, Len(s)))

\* ------------------------------------------------------------------------
\* Matcher evaluation (src/src/expr.rs)
\* ------------------------------------------------------------------------
RECURSIVE is_match(_, _, _), glob_match_from(_, _, _, _), brace_depth_ok(_, _, _)

\* a value of the environment is a String: it holds no byte sequence that is
\* not Unicode (written as the element "0xFF")
is_unicode(v) == \A i \in 1..Len(v) : v[i] # "0xFF"

\* env::var(name): the environment is a set of [name, value] pairs with at
\* most one pair per name; Err(NotPresent) and Err(NotUnicode) both give
\* set = FALSE
env_var(env, name) ==
    IF \E e \in env : e.name = name /\ is_unicode(e.value)
    THEN [set |-> TRUE, v |-> (CHOOSE e \in env : e.name = name).value]
    ELSE [set |-> FALSE, v |-> <<>>]

\* GlobBuilder::build succeeds: alternation braces and character classes are
\* closed (the malformed patterns of the tests are "{oops" and "{foo")
brace_depth_ok(p, i, depth) ==
    IF i > Len(p) THEN depth = 0
    ELSE IF p[i] = "{" THEN brace_depth_ok(p, i + 1, depth + 1)
    ELSE IF p[i] = "}" THEN depth > 0 /\ brace_depth_ok(p, i + 1, depth - 1)
    ELSE brace_depth_ok(p, i + 1, depth)

glob_build_ok(p) == brace_depth_ok(p, 1, 0)

\* GlobSet::is_match for patterns of literal characters, `?` and `*`
glob_match_from(p, i, s, j) ==
    IF i > Len(p) THEN j > Len(s)
    ELSE IF p[i] = "*" THEN \E k \in j..(Len(s) + 1) : glob_match_from(p, i + 1, s, k)
    ELSE IF p[i] = "?" THEN j <= Len(s) /\ glob_match_from(p, i + 1, s, j + 1)
    ELSE j <= Len(s) /\ s[j] = p[i] /\ glob_match_from(p, i + 1, s, j + 1)

\* a leading "**/" matches no directory or any number of them
glob_is_match(p, path) ==
    IF Len(p) >= 3 /\ SubSeq(p, 1, 3) = <<"*","*","/">>
    THEN \E k \in 1..(Len(path) + 1) :
            /\ (k = 1 \/ path[k - 1] = "/")
            /\ glob_match_from(p, 4, path, k)
    ELSE glob_match_from(p, 1, path, 1)

\* The entries WalkBuilder yields as Ok: ignore rules drop an entry, an entry
\* that fails to be read is yielded as Err and skipped by both walks
walk_entries(fs) == {d \in fs : ~d.ignored /\ ~d.unreadable}

\* exists_match taking every entry the walk yields, whatever its file type
exists_match_any_type(fs, pattern) ==
    IF ~glob_build_ok(pattern) THEN Err("invalid exists() pattern")
    ELSE Ok(\E d \in walk_entries(fs) : glob_is_match(pattern, d.path), 0)

\* exists_match; the text of the glob error that follows the message is left out
exists_match(fs, pattern) ==
    IF ~glob_build_ok(pattern) THEN Err("invalid exists() pattern")
    ELSE Ok(\E d \in walk_entries(fs) : d.ft = "file" /\ glob_is_match(pattern, d.path), 0)

\* languages::from_name and the extension list of the language found
LangRegistry ==
    (<<"r","u","s","t">> :> << <<".","r","s">> >>) @@
    (<<"u","p">> :> << <<"R","S">>, <<".">> >>) @@
    (<<"d","o","t">> :> << <<".">> >>) @@
    (<<"t","x","t">> :> << >>)

\* str::to_ascii_lowercase on the letters the inputs use
to_ascii_lowercase(s) ==
    [i \in 1..Len(s) |-> CASE s[i] = "R" -> "r" [] s[i] = "S" -> "s" [] OTHER -> s[i]]

\* the extension set lang_match builds: leading dot stripped, lower-cased,
\* empty entries dropped
lang_exts(list) ==
    LET norm(e) == to_ascii_lowercase(IF e # <<>> /\ e[1] = "." THEN Tail(e) ELSE e)
    IN {norm(list[i]) : i \in 1..Len(list)} \ {<<>>}

\* Path::extension: the text after the last '.' of the file name, None (-1
\* start) when the name has no '.' or only a leading one
path_extension(path) ==
    LET slashes == {i \in 1..Len(path) : path[i] = "/"}
        base    == IF slashes = {} THEN 1
                   ELSE 1 + CHOOSE i \in slashes : \A k \in slashes : k <= i
        dots    == {i \in (base + 1)..Len(path) : path[i] = "."}
    IN IF dots = {} THEN [some |-> FALSE, ext |-> <<>>]
       ELSE [some |-> TRUE,
             ext |-> SubSeq(path, 1 + (CHOOSE i \in dots : \A k \in dots : k <= i), Len(path))]

\* lang_match comparing the extension as it is written
lang_match_case_sensitive(fs, name) ==
    IF name \notin DOMAIN LangRegistry THEN ErrArg("unknown language: {name}", name)
    ELSE LET exts == lang_exts(LangRegistry[name]) IN
         IF exts = {} THEN Ok(FALSE, 0)
         ELSE Ok(\E d \in walk_entries(fs) :
                    /\ d.ft = "file"
                    /\ path_extension(d.path).some
                    /\ path_extension(d.path).ext \in exts, 0)

\* lang_match
lang_match(fs, name) ==
    IF name \notin DOMAIN LangRegistry THEN ErrArg("unknown language: {name}", name)
    ELSE LET exts == lang_exts(LangRegistry[name]) IN
         IF exts = {} THEN Ok(FALSE, 0)
         ELSE Ok(\E d \in walk_entries(fs) :
                    /\ d.ft = "file"
                    /\ path_extension(d.path).some
                    /\ to_ascii_lowercase(path_extension(d.path).ext) \in exts, 0)

\* the Expr::Matcher arm with EnvExists true for every variable that is set
matcher_is_match_set_is_enough(m, env, fs) ==
    CASE m.k = "Exists"    -> exists_match(fs, m.arg)
      [] m.k = "EnvExists" -> Ok(env_var(env, m.name).set, 0)
      [] m.k = "EnvEquals" -> Ok(env_var(env, m.name).set /\ env_var(env, m.name).v = m.value, 0)
      [] m.k = "Lang"      -> lang_match(fs, m.arg)

\* the Expr::Matcher arm of is_match
matcher_is_match(m, env, fs) ==
    CASE m.k = "Exists"    -> exists_match(fs, m.arg)
      [] m.k = "EnvExists" -> Ok(env_var(env, m.name).set /\ env_var(env, m.name).v # <<>>, 0)
      [] m.k = "EnvEquals" -> Ok(env_var(env, m.name).set /\ env_var(env, m.name).v = m.value, 0)
      [] m.k = "Lang"      -> lang_match(fs, m.arg)

\* the And arm evaluating both operands before combining them
is_match_and_eager(a, b, env, fs) ==
    LET ra == is_match(a, env, fs)
        rb == is_match(b, env, fs) IN
    IF ~ra.ok THEN ra
    ELSE IF ~rb.ok THEN rb
    ELSE Ok(ra.val /\ rb.val, 0)

\* the Expr::And arm: Ok(a.is_match(root)? && b.is_match(root)?)
is_match_and(a, b, env, fs) ==
    LET ra == is_match(a, env, fs) IN
    IF ~ra.ok THEN ra
    ELSE IF ~ra.val THEN Ok(FALSE, 0)
    ELSE is_match(b, env, fs)

\* the Expr::Or arm: Ok(a.is_match(root)? || b.is_match(root)?)
is_match_or(a, b, env, fs) ==
    LET ra == is_match(a, env, fs) IN
    IF ~ra.ok THEN ra
    ELSE IF ra.val THEN Ok(TRUE, 0)
    ELSE is_match(b, env, fs)

\* the Not arm without the negation
is_match_not_identity(e, env, fs) == is_match(e, env, fs)

\* the Expr::Not arm: Ok(!e.is_match(root)?)
is_match_not(e, env, fs) ==
    LET r == is_match(e, env, fs) IN
    IF ~r.ok THEN r ELSE Ok(~r.val, 0)

\* Expr::is_match
is_match(expr, env, fs) ==
    CASE expr.t = "Matcher" -> matcher_is_match(expr.m, env, fs)
      [] expr.t = "And"     -> is_match_and(expr.a, expr.b, env, fs)
      [] expr.t = "Or"      -> is_match_or(expr.a, expr.b, env, fs)
      [] expr.t = "Not"     -> is_match_not(expr.e, env, fs)

\* ------------------------------------------------------------------------
\* Template, Block and rendering (src/src/template.rs)
\* ------------------------------------------------------------------------
RECURSIVE render_blocks(_, _, _, _)

Text(s)          == [t |-> "Text", s |-> s]
If(cond, body)   == [t |-> "If", cond |-> cond, body |-> body]

\* render_blocks emitting the body of an If block whatever its guard says
render_blocks_ignoring_guard(blocks, env, fs, out) ==
    IF blocks = <<>> THEN Ok(out, 0)
    ELSE LET b == Head(blocks) IN
         IF b.t = "Text" THEN render_blocks(Tail(blocks), env, fs, out \o b.s)
         ELSE LET c == is_match(b.cond, env, fs) IN
              IF ~c.ok THEN c
              ELSE LET r == render_blocks(b.body, env, fs, out) IN
                   IF ~r.ok THEN r
                   ELSE render_blocks(Tail(blocks), env, fs, r.val)

\* render_blocks treating a guard that fails to evaluate as a false guard
render_blocks_swallowing_errors(blocks, env, fs, out) ==
    IF blocks = <<>> THEN Ok(out, 0)
    ELSE LET b == Head(blocks) IN
         IF b.t = "Text" THEN render_blocks(Tail(blocks), env, fs, out \o b.s)
         ELSE LET c == is_match(b.cond, env, fs) IN
              IF c.ok /\ c.val THEN
                   LET r == render_blocks(b.body, env, fs, out) IN
                   IF ~r.ok THEN r
                   ELSE render_blocks(Tail(blocks), env, fs, r.val)
              ELSE render_blocks(Tail(blocks), env, fs, out)

\* render_blocks rendering the body of an If block before it looks at what
\* the guard said, and dropping the body's text when the guard was false
render_blocks_body_first(blocks, env, fs, out) ==
    IF blocks = <<>> THEN Ok(out, 0)
    ELSE LET b == Head(blocks) IN
         IF b.t = "Text" THEN render_blocks(Tail(blocks), env, fs, out \o b.s)
         ELSE LET c == is_match(b.cond, env, fs) IN
              IF ~c.ok THEN c
              ELSE LET r == render_blocks(b.body, env, fs, out) IN
                   IF ~r.ok THEN r
                   ELSE render_blocks(Tail(blocks), env, fs, IF c.val THEN r.val ELSE out)

\* render_blocks: `out` is the accumulator; Ok carries it, Err only the error
render_blocks(blocks, env, fs, out) ==
    IF blocks = <<>> THEN Ok(out, 0)
    ELSE LET b == Head(blocks) IN
         IF b.t = "Text" THEN render_blocks(Tail(blocks), env, fs, out \o b.s)
         ELSE LET c == is_match(b.cond, env, fs) IN
              IF ~c.ok THEN c
              ELSE IF c.val THEN
                   LET r == render_blocks(b.body, env, fs, out) IN
                   IF ~r.ok THEN r
                   ELSE render_blocks(Tail(blocks), env, fs, r.val)
              ELSE render_blocks(Tail(blocks), env, fs, out)

\* Template::render; pfx is [some, s] for Option<&str>
render(blocks, env, fs, pfx) ==
    render_blocks(blocks, env, fs, IF pfx.some THEN pfx.s ELSE <<>>)

\* ------------------------------------------------------------------------
\* Project root detection (src/src/project.rs)
\* ------------------------------------------------------------------------
RECURSIVE project_root_walk(_, _, _)

\* A path is [abs, comps]: absolute or relative to the working directory, and
\* its components. None is written NoPath.
NoPath == [none |-> TRUE]
PathOf(abs, comps) == [abs |-> abs, comps |-> comps]

\* Path::parent: the path without its last component; None for "/" and ""
Path_parent(p) ==
    IF p.comps = <<>> THEN NoPath
    ELSE PathOf(p.abs, SubSeq(p.comps, 1, Len(p.comps) - 1))

\* The directory or file a path denotes in the world w = [dirs, cwd, start]:
\* the components that are not "." from the root, a relative path taken from
\* the working directory w.cwd
Resolve(w, p) ==
    (IF p.abs THEN <<>> ELSE w.cwd) \o SelectSeq(p.comps, LAMBDA c : c # ".")

\* Path::is_file and the markers of a directory; w.dirs maps each directory to
\* [vcs, lock], every other path that is not w.file does not exist
Path_is_file(w, p) == Resolve(w, p) = w.file

DirOf(w, p) ==
    IF Resolve(w, p) \in DOMAIN w.dirs THEN w.dirs[Resolve(w, p)]
    ELSE [vcs |-> "none", lock |-> "none"]

\* has_vcs_dir: `.git`, `.hg` or `.svn` is a directory in dir
has_vcs_dir(w, dir) == DirOf(w, dir).vcs \in {".git/", ".hg/", ".svn/"}

\* dir.join("Cargo.lock").is_file()
has_cargo_lock(w, dir) == DirOf(w, dir).lock = "file"

\* the while loop of project_root and what follows it
project_root_walk(w, cur, candidate) ==
    IF cur = NoPath
    THEN IF candidate # NoPath THEN Ok(candidate, 0)
         ELSE [ok |-> FALSE, kind |-> "Root", err |-> "project root not found", arg |-> <<>>]
    ELSE IF has_vcs_dir(w, cur) THEN Ok(cur, 0)
    ELSE project_root_walk(w, Path_parent(cur),
            IF has_cargo_lock(w, cur) /\ candidate = NoPath THEN cur ELSE candidate)

\* project_root
project_root(w, path) ==
    project_root_walk(w,
        IF Path_is_file(w, path) /\ Path_parent(path) # NoPath THEN Path_parent(path) ELSE path,
        NoPath)

\* ------------------------------------------------------------------------
\* State
\* ------------------------------------------------------------------------
VARIABLES
    src,        \* TemplateParser.src: the template text
    idx,        \* TemplateParser.idx: the cursor
    stack,      \* parse(): frames [expr, body] of the open `if` tags
    cur,        \* parse(): the body being built
    pc,         \* "scan" while parse() loops, then "parsed" or "failed"; "off"
                \* when no template is being parsed
    result,     \* what parse_template returned
    shape,      \* the items src was assembled from
    environ,    \* the process environment: [name, value] pairs
    files,      \* the entries of the tree under the project root
    rendered,   \* the last Template::render call: its arguments and result
    guard,      \* the text handed to ExprParser::new
    gmeta,      \* how `guard` was assembled
    gres,       \* what parse_expr returned for `guard`
    evaluated,  \* the last Expr::is_match call: its environment and result
    proj,       \* the directories above the start path of project_root, the
                \* working directory and the start path
    found,      \* what project_root returned
    tpls,       \* the template files: <root>/.agents.md and the shared template
    comb,       \* render_combined: where it is, its `out`, what it returned
    cli,        \* main: its flags, which run it is, what it printed and wrote
    disk        \* the output files AGENTS.md and CLAUDE.md

vars == <<src, idx, stack, cur, pc, result, shape, environ, files, rendered,
          guard, gmeta, gres, evaluated, proj, found, tpls, comb, cli, disk>>

tvars == <<src, idx, stack, cur, pc, result, shape, rendered>>
gvars == <<guard, gmeta, gres, evaluated>>
cvars == <<proj, found, tpls, comb, cli, disk>>

\* the command line is not in use
NoWorld == [kind |-> "none"]
CliIdle ==
    /\ proj = NoWorld
    /\ found = NoResult
    /\ tpls = NoWorld
    /\ comb = [phase |-> "idle", out |-> <<>>, res |-> NoResult]
    /\ cli = NoWorld
    /\ disk = NoWorld

\* ------------------------------------------------------------------------
\* Bounds and input alphabets
\* ------------------------------------------------------------------------
MaxItems == 5
MaxOps   == 2
MaxTagItems == 3

RECURSIVE Concat(_)
Concat(ss) == IF ss = <<>> THEN <<>> ELSE Head(ss) \o Concat(Tail(ss))

cA  == <<"A">>
cB  == <<"B">>
c1  == <<"1">>
sOpen   == <<"<","!","-","-">>
sClose  == <<"-","-",">">>
sIf     == <<"i","f">>
sEndif  == <<"e","n","d","i","f">>
sEnvA   == <<"e","n","v","(","A",")">>
sEnvB   == <<"e","n","v","(","B",")">>
sExBad  == <<"e","x","i","s","t","s","(","{",")">>
sLangZ  == <<"l","a","n","g","(","z","z",")">>
pAgents == <<"A","G","E","N","T","S",".","m","d">>
pClaude == <<"C","L","A","U","D","E",".","m","d">>
pA == <<"a",".","r","s">>
pS == <<"s",".","r","s">>
pB == <<"b",".","r","s">>
pC == <<"c",".","r","s">>
pD == <<"d",".","R","S">>
pL == <<"l",".","r","s">>
pN == <<"s","r","c","/","n",".","r","s">>

\* the items a template is assembled from
ItemKinds == {"text", "if", "ifbad", "endif", "note"}

ItemText(k) ==
    CASE k = "text"  -> <<"a">>
      [] k = "if"    -> sOpen \o <<" ">> \o sIf \o <<" ">> \o sEnvA \o <<" ">> \o sClose
      [] k = "ifbad" -> sOpen \o sIf \o sExBad \o sClose
      [] k = "endif" -> sOpen \o <<" ">> \o sEndif \o <<" ">> \o sClose
      [] k = "note"  -> sOpen \o <<" ","n"," ">> \o sClose
      [] k = "L"     -> <<"L","\n">>
      [] k = "S"     -> <<"S","\n">>
      [] k = "ifout" -> sOpen \o <<" ">> \o sIf \o <<" ">> \o kwExists \o <<"(">> \o pAgents \o <<")"," ">> \o sClose
      [] k = "ifex"  -> sOpen \o <<" ">> \o sIf \o <<" ">> \o kwExists \o <<"(">> \o pA \o <<")"," ">> \o sClose
      [] k = "opennote"  -> sOpen \o <<" ","n">>
      [] k = "openif"    -> sOpen \o <<" ">> \o sIf \o <<" ">> \o sEnvA
      [] k = "openendif" -> sOpen \o <<" ">> \o sEndif
      [] k = "endifx"    -> sOpen \o <<" ">> \o sEndif \o <<" ","x"," ">> \o sClose
      [] k = "iftight"    -> sOpen \o sIf \o sEnvA \o sClose
      [] k = "ifwide"     -> sOpen \o <<"\t","\n">> \o sIf \o <<"\n"," ">> \o sEnvA \o <<"\t">> \o sClose
      [] k = "ifdef"      -> sOpen \o <<" ">> \o sIf \o <<"d","e","f"," ">> \o sClose
      [] k = "ifempty"    -> sOpen \o <<" ">> \o sIf \o <<" ">> \o sClose
      [] k = "endiftight" -> sOpen \o sEndif \o sClose
      [] k = "endifs"     -> sOpen \o <<" ">> \o sEndif \o <<"s"," ">> \o sClose
      [] k = "IF"         -> sOpen \o <<" ","I","F"," ">> \o sEnvA \o <<" ">> \o sClose
      [] k = "xif"        -> sOpen \o <<" ","x">> \o sIf \o <<" ">> \o sClose
      [] k = "end"        -> sOpen \o <<" ","e","n","d"," ">> \o sIf \o <<" ">> \o sClose
      [] k = "else"       -> sOpen \o <<" ","e","l","s","e"," ">> \o sClose
      [] k = "empty"      -> sOpen \o sClose
      [] k = "ifB"        -> sOpen \o <<" ">> \o sIf \o <<" ">> \o sEnvB \o <<" ">> \o sClose
      [] k = "ifzz"       -> sOpen \o <<" ">> \o sIf \o <<" ">> \o sLangZ \o <<" ">> \o sClose
      [] k = "ifq"        -> sOpen \o <<" ">> \o sIf \o <<" ">> \o kwExists \o
                             <<"(","\"","a">> \o sClose \o <<"b","\"",")"," ">> \o sClose
      [] k = "ifraw"      -> sOpen \o <<" ">> \o sIf \o <<" ">> \o kwLang \o
                             <<"(","r","\"">> \o sClose \o <<"\"",")"," ">> \o sClose
      [] k = "ifenvq"     -> sOpen \o <<" ">> \o sIf \o <<" ">> \o kwEnv \o
                             <<"(","A"," ","\"",")">> \o sClose \o <<"\"",")"," ">> \o sClose

Shapes == UNION {[1..n -> ItemKinds] : n \in 0..MaxItems}

\* tags that are never closed, and an `endif` tag with text after the keyword
OpenKinds == {"opennote", "openif", "openendif"}
TagKinds  == ItemKinds \cup OpenKinds \cup {"endifx"}
TagShapes == UNION {[1..n -> TagKinds] : n \in 0..MaxTagItems}

ShapeText(sh) == Concat([i \in 1..Len(sh) |-> ItemText(sh[i])])

\* Option<&str> prefixes passed to render
Prefixes == {[some |-> FALSE, s |-> <<>>], [some |-> TRUE, s |-> <<"P","\n">>]}

\* environment variables the guards name, and the values they are given
EnvNames  == {cA, cB}
EnvValues == {c1}

\* the entries a tree is made of: a regular file, a directory, a file the
\* ignore rules exclude, an entry that fails to be read, a file with an
\* upper-case extension, a symbolic link, a file in a directory
Entry(p, t, ign, unr) == [path |-> p, ft |-> t, ignored |-> ign, unreadable |-> unr]

FileEntries ==
    {Entry(pA, "file", FALSE, FALSE), Entry(pS, "dir", FALSE, FALSE),
     Entry(pB, "file", TRUE, FALSE), Entry(pC, "file", FALSE, TRUE),
     Entry(pD, "file", FALSE, FALSE), Entry(pL, "symlink", FALSE, FALSE),
     Entry(pN, "file", FALSE, FALSE)}

\* the tree under the root: one regular file
InitFiles ==
    {[path |-> <<"a",".","r","s">>, ft |-> "file", ignored |-> FALSE, unreadable |-> FALSE]}

\* ------------------------------------------------------------------------
\* TemplateParser (src/src/parse.rs)
\* ------------------------------------------------------------------------

\* TemplateParser::find: the offset of the next needle, or -1
TemplateParser_find(s, i, needle) == str_find(s, i, needle)

\* consume_if taking a keyword only when no letter or digit follows it
consume_if_whole_word(s, i, pat) ==
    IF starts_with(s, i, pat) /\
       (i + Len(pat) >= Len(s) \/ ~is_alphanumeric(s[i + Len(pat) + 1]))
    THEN i + Len(pat) ELSE -1

\* TemplateParser::consume_if: the cursor after `pat`, or -1
consume_if(s, i, pat) == IF starts_with(s, i, pat) THEN i + Len(pat) ELSE -1

\* read_until taking the rest of the input when the delimiter is missing
TemplateParser_read_until_to_end(s, i, delim) ==
    LET pos == str_find(s, i, delim)
    IN IF pos # -1 THEN Ok(Slice(s, i, pos), pos)
       ELSE Ok(Slice(s, i, Len(s)), Len(s))

\* TemplateParser::read_until
TemplateParser_read_until(s, i, delim) ==
    LET pos == str_find(s, i, delim)
    IN IF pos # -1 THEN Ok(Slice(s, i, pos), pos)
       ELSE ErrArg("unterminated tag; missing '{delim}'", delim)

\* parse(), lines 24-32: where the next tag opens, the body after the text
\* before it has been pushed, and the cursor after "<!--" and whitespace
tag_start  == TemplateParser_find(src, idx, sOpen)
cur_text   == IF tag_start > idx THEN Append(cur, Text(Slice(src, idx, tag_start))) ELSE cur
after_open == skip_ws(src, tag_start + 4)

\* parse() returns an error
ParseFail(e) ==
    /\ pc' = "failed"
    /\ result' = e
    /\ UNCHANGED <<idx, stack, cur>>

\* parse(), lines 36-38: the guard text r has been read up to "-->"
push_if(r) ==
    Try(parse_expr(trim(r.val)),
        LAMBDA e : [ok |-> TRUE, idx |-> r.idx + 3, cur |-> <<>>,
                    stack |-> Append(stack, [expr |-> e.val, body |-> cur_text])])

\* the first delimiter at or after i that has an even number of `"` between
\* i and itself; -1 when there is none
find_outside_quotes(s, i, delim) ==
    LET at == {p \in i..Len(s) :
                 /\ starts_with(s, p, delim)
                 /\ Cardinality({q \in (i + 1)..p : s[q] = "\""}) % 2 = 0}
    IN IF at = {} THEN -1 ELSE CHOOSE p \in at : \A q \in at : p <= q

\* the `if` tag whose guard ends at the first "-->" outside string literals
if_tag_step_outside_quotes ==
    Try(LET pos == find_outside_quotes(src, skip_ws(src, after_open + 2), sClose)
        IN IF pos # -1 THEN Ok(Slice(src, skip_ws(src, after_open + 2), pos), pos)
           ELSE ErrArg("unterminated tag; missing '{delim}'", sClose),
        LAMBDA r : push_if(r))

\* parse(), lines 33-38: what an `if` tag does to the cursor, stack and body
if_tag_step ==
    Try(TemplateParser_read_until(src, skip_ws(src, after_open + 2), sClose),
        LAMBDA r : push_if(r))

\* one loop iteration ends: the locals are updated, or parse() returns an error
LoopStep(st) ==
    IF st.ok
    THEN /\ idx' = st.idx
         /\ stack' = st.stack
         /\ cur' = st.cur
         /\ UNCHANGED <<pc, result>>
    ELSE ParseFail(st)

\* parse(), lines 33-38: one loop iteration on an `if` tag
IfTag ==
    /\ pc = "scan" /\ idx < Len(src) /\ tag_start # -1
    /\ consume_if(src, after_open, sIf) # -1
    /\ LoopStep(if_tag_step)
    /\ UNCHANGED <<src, shape, environ, files, rendered, gvars, cvars>>

\* the `endif` iteration putting the completed If block before the blocks of
\* the enclosing body
EndifTag_prepending ==
    /\ pc = "scan" /\ idx < Len(src) /\ tag_start # -1
    /\ consume_if(src, after_open, sIf) = -1
    /\ consume_if(src, after_open, sEndif) # -1
    /\ LET r == TemplateParser_read_until(src, after_open + 5, sClose) IN
       IF ~r.ok THEN ParseFail(r)
       ELSE IF trim(r.val) # <<>> THEN ParseFail(Err("unexpected content after 'endif'"))
       ELSE IF stack = <<>> THEN ParseFail(Err("stray 'endif'"))
       ELSE LET top == stack[Len(stack)] IN
            /\ idx' = r.idx + 3
            /\ stack' = SubSeq(stack, 1, Len(stack) - 1)
            /\ cur' = <<If(top.expr, cur_text)>> \o top.body
            /\ UNCHANGED <<pc, result>>
    /\ UNCHANGED <<src, shape, environ, files, rendered, gvars, cvars>>

\* parse(), lines 39-55: one loop iteration on an `endif` tag
EndifTag ==
    /\ pc = "scan" /\ idx < Len(src) /\ tag_start # -1
    /\ consume_if(src, after_open, sIf) = -1
    /\ consume_if(src, after_open, sEndif) # -1
    /\ LET r == TemplateParser_read_until(src, after_open + 5, sClose) IN
       IF ~r.ok THEN ParseFail(r)
       ELSE IF trim(r.val) # <<>> THEN ParseFail(Err("unexpected content after 'endif'"))
       ELSE IF stack = <<>> THEN ParseFail(Err("stray 'endif'"))
       ELSE LET top == stack[Len(stack)] IN
            /\ idx' = r.idx + 3
            /\ stack' = SubSeq(stack, 1, Len(stack) - 1)
            /\ cur' = Append(top.body, If(top.expr, cur_text))
            /\ UNCHANGED <<pc, result>>
    /\ UNCHANGED <<src, shape, environ, files, rendered, gvars, cvars>>

\* the comment iteration leaving the cursor where the tag opens
CommentTag_rescanning ==
    /\ pc = "scan" /\ idx < Len(src) /\ tag_start # -1
    /\ consume_if(src, after_open, sIf) = -1
    /\ consume_if(src, after_open, sEndif) = -1
    /\ LET r == TemplateParser_read_until(src, after_open, sClose) IN
       IF ~r.ok THEN ParseFail(r)
       ELSE /\ idx' = tag_start
            /\ cur' = Append(cur_text, Text(sOpen \o r.val \o sClose))
            /\ UNCHANGED <<stack, pc, result>>
    /\ UNCHANGED <<src, shape, environ, files, rendered, gvars, cvars>>

\* parse(), lines 56-64: one loop iteration on any other comment
CommentTag ==
    /\ pc = "scan" /\ idx < Len(src) /\ tag_start # -1
    /\ consume_if(src, after_open, sIf) = -1
    /\ consume_if(src, after_open, sEndif) = -1
    /\ LET r == TemplateParser_read_until(src, after_open, sClose) IN
       IF ~r.ok THEN ParseFail(r)
       ELSE /\ idx' = r.idx + 3
            /\ cur' = Append(cur_text, Text(sOpen \o r.val \o sClose))
            /\ UNCHANGED <<stack, pc, result>>
    /\ UNCHANGED <<src, shape, environ, files, rendered, gvars, cvars>>

\* parse(), lines 65-71: no further tag, the rest is text
TailText ==
    /\ pc = "scan" /\ idx < Len(src) /\ tag_start = -1
    /\ cur' = Append(cur, Text(Slice(src, idx, Len(src))))
    /\ idx' = Len(src)
    /\ UNCHANGED <<stack, pc, result>>
    /\ UNCHANGED <<src, shape, environ, files, rendered, gvars, cvars>>

\* the end of parse() without the check for open `if` frames
Finish_no_unclosed_check ==
    /\ pc = "scan" /\ idx >= Len(src)
    /\ pc' = "parsed"
    /\ result' = Ok(cur, idx)
    /\ UNCHANGED <<idx, stack, cur>>
    /\ UNCHANGED <<src, shape, environ, files, rendered, gvars, cvars>>

\* parse(), lines 74-78: the loop has ended
Finish ==
    /\ pc = "scan" /\ idx >= Len(src)
    /\ IF stack # <<>> THEN ParseFail(Err("unclosed 'if' block"))
       ELSE /\ pc' = "parsed"
            /\ result' = Ok(cur, idx)
            /\ UNCHANGED <<idx, stack, cur>>
    /\ UNCHANGED <<src, shape, environ, files, rendered, gvars, cvars>>

\* ------------------------------------------------------------------------
\* Rendering and guard evaluation as operations; the environment
\* ------------------------------------------------------------------------

\* what a render call leaves for the record of the next one: its prefix and result
LastCall == IF rendered = NoResult THEN NoResult
            ELSE [prefix |-> rendered.prefix, res |-> rendered.res]

\* render returning what the call before it returned, when there was one
Render_cached ==
    /\ pc = "parsed"
    /\ \E p \in Prefixes :
         rendered' = [env |-> environ, fs |-> files, prefix |-> p,
                      res |-> IF rendered = NoResult
                              THEN render(result.val, environ, files, p)
                              ELSE rendered.res,
                      prev |-> LastCall]
    /\ UNCHANGED <<src, idx, stack, cur, pc, result, shape, environ, files, gvars, cvars>>

\* Template::render on the parsed template; the record keeps the arguments
\* and the result of the call, and the result of the call before it
Render ==
    /\ pc = "parsed"
    /\ \E p \in Prefixes :
         rendered' = [env |-> environ, fs |-> files, prefix |-> p,
                      res |-> render(result.val, environ, files, p),
                      prev |-> LastCall]
    /\ UNCHANGED <<src, idx, stack, cur, pc, result, shape, environ, files, gvars, cvars>>

\* ExprParser::new(guard).parse_expr()
ParseGuard ==
    /\ pc = "off" /\ gres = NoResult
    /\ gres' = parse_expr(guard)
    /\ UNCHANGED <<tvars, environ, files, guard, gmeta, evaluated, cvars>>

\* Expr::is_match on the parsed guard
Evaluate ==
    /\ pc = "off" /\ gres # NoResult /\ gres.ok /\ evaluated = NoResult
    /\ evaluated' = [env |-> environ, fs |-> files,
                     res |-> is_match(gres.val, environ, files)]
    /\ UNCHANGED <<tvars, environ, files, guard, gmeta, gres, cvars>>

\* the environment changes only between calls: the engine is synchronous and
\* the parsers do not read it; a guard is evaluated once, in the environment
\* reached by then, a template is rendered again and again
WorldOpen ==
    \/ pc = "parsed"
    \/ pc = "off" /\ gres # NoResult /\ gres.ok /\ evaluated = NoResult

\* the variable is named by the input: the others change no result
Named(n) == str_find(src \o guard, 0, n) # -1

\* a variable is set in the process environment
SetVar ==
    /\ WorldOpen
    /\ \E n \in EnvNames, v \in EnvValues :
         /\ Named(n)
         /\ [name |-> n, value |-> v] \notin environ
         /\ environ' = {e \in environ : e.name # n} \cup {[name |-> n, value |-> v]}
    /\ UNCHANGED <<tvars, files, gvars, cvars>>

\* a variable is removed from the process environment
RemoveVar ==
    /\ WorldOpen
    /\ \E e \in environ : environ' = environ \ {e}
    /\ UNCHANGED <<tvars, files, gvars, cvars>>

\* the entry is named by the input: the others change no result
PathNamed(d) == str_find(src \o guard, 0, d.path) # -1

\* an entry appears in the tree under the root
CreateEntry ==
    /\ WorldOpen
    /\ \E d \in FileEntries :
         /\ PathNamed(d)
         /\ \A e \in files : e.path # d.path
         /\ files' = files \cup {d}
    /\ UNCHANGED <<tvars, environ, gvars, cvars>>

\* an entry disappears from the tree under the root
RemoveEntry ==
    /\ WorldOpen
    /\ \E d \in files : files' = files \ {d}
    /\ UNCHANGED <<tvars, environ, gvars, cvars>>

\* ------------------------------------------------------------------------
\* Specification of the template engine: parse a template, then render it
\* ------------------------------------------------------------------------
NoGuard == [kind |-> "none"]

Init ==
    /\ shape \in Shapes
    /\ src = ShapeText(shape)
    /\ idx = 0
    /\ stack = <<>>
    /\ cur = <<>>
    /\ pc = "scan"
    /\ result = NoResult
    /\ environ = {}
    /\ files = InitFiles
    /\ rendered = NoResult
    /\ guard = <<>>
    /\ gmeta = NoGuard
    /\ gres = NoResult
    /\ evaluated = NoResult
    /\ CliIdle

Next ==
    \/ IfTag
    \/ EndifTag
    \/ CommentTag
    \/ TailText
    \/ Finish
    \/ Render
    \/ SetVar
    \/ RemoveVar

Spec == Init /\ [][Next]_vars

\* the same engine on templates that contain malformed tags
InitTags ==
    /\ shape \in TagShapes
    /\ src = ShapeText(shape)
    /\ idx = 0
    /\ stack = <<>>
    /\ cur = <<>>
    /\ pc = "scan"
    /\ result = NoResult
    /\ environ = {}
    /\ files = InitFiles
    /\ rendered = NoResult
    /\ guard = <<>>
    /\ gmeta = NoGuard
    /\ gres = NoResult
    /\ evaluated = NoResult
    /\ CliIdle

SpecTags == InitTags /\ [][Next]_vars

\* the same engine on templates whose tags are spelled in every way the
\* dispatch of parse() tells apart
MaxDispatchItems == 2

DispatchKinds ==
    {"text", "if", "iftight", "ifwide", "ifdef", "ifempty",
     "endif", "endiftight", "endifs",
     "note", "IF", "xif", "end", "else", "empty",
     "ifq", "ifraw", "ifenvq"}

DispatchShapes == UNION {[1..n -> DispatchKinds] : n \in 0..MaxDispatchItems}

InitDispatch ==
    /\ shape \in DispatchShapes
    /\ src = ShapeText(shape)
    /\ idx = 0
    /\ stack = <<>>
    /\ cur = <<>>
    /\ pc = "scan"
    /\ result = NoResult
    /\ environ = {}
    /\ files = InitFiles
    /\ rendered = NoResult
    /\ guard = <<>>
    /\ gmeta = NoGuard
    /\ gres = NoResult
    /\ evaluated = NoResult
    /\ CliIdle

SpecDispatch == InitDispatch /\ [][Next]_vars

\* the same engine on templates of nested blocks with guards on two
\* variables and two guards that fail to evaluate, each with its own error;
\* these templates hold no comments
MaxNestItems == 4

NestKinds == {"text", "if", "ifB", "ifbad", "ifzz", "endif"}

NestShapes == UNION {[1..n -> NestKinds] : n \in 0..MaxNestItems}

InitNested ==
    /\ shape \in NestShapes
    /\ src = ShapeText(shape)
    /\ idx = 0
    /\ stack = <<>>
    /\ cur = <<>>
    /\ pc = "scan"
    /\ result = NoResult
    /\ environ = {}
    /\ files = InitFiles
    /\ rendered = NoResult
    /\ guard = <<>>
    /\ gmeta = NoGuard
    /\ gres = NoResult
    /\ evaluated = NoResult
    /\ CliIdle

NextNested ==
    \/ IfTag
    \/ EndifTag
    \/ TailText
    \/ Finish
    \/ Render
    \/ SetVar
    \/ RemoveVar

SpecNested == InitNested /\ [][NextNested]_vars

\* templates with a guard on a file, rendered while the tree and the
\* environment change
WorldShapes ==
    {<<"text", "ifex", "text", "endif">>,
     <<"ifex", "text", "if", "text", "endif", "endif", "text">>,
     <<"if", "ifex", "text", "endif", "endif">>,
     <<"ifex", "note", "endif", "if", "text", "endif">>,
     <<"ifex", "text", "endif", "ifbad", "endif">>}

InitWorld ==
    /\ shape \in WorldShapes
    /\ src = ShapeText(shape)
    /\ idx = 0
    /\ stack = <<>>
    /\ cur = <<>>
    /\ pc = "scan"
    /\ result = NoResult
    /\ environ = {}
    /\ files = {}
    /\ rendered = NoResult
    /\ guard = <<>>
    /\ gmeta = NoGuard
    /\ gres = NoResult
    /\ evaluated = NoResult
    /\ CliIdle

NextWorld ==
    \/ Next
    \/ CreateEntry
    \/ RemoveEntry

SpecWorld == InitWorld /\ [][NextWorld]_vars

\* ------------------------------------------------------------------------
\* Guard inputs: expression trees written out by the grammar of the guard
\* language, and env(...) forms
\* ------------------------------------------------------------------------
RECURSIVE TreesOfSize(_), PrintOr(_, _), PrintAnd(_, _), PrintNot(_, _)

\* the matchers guards are built from, with their source text; env(A) and
\* env(B) follow the environment, exists({) and lang(zz) fail to evaluate
AtomA   == MatcherE(EnvExists(cA))
AtomB   == MatcherE(EnvExists(cB))
AtomBad == MatcherE(Exists(<<"{">>))
AtomZ   == MatcherE(Lang(<<"z","z">>))
Atoms   == {AtomA, AtomB, AtomBad}

AtomText(e) ==
    CASE e = AtomA   -> sEnvA
      [] e = AtomB   -> sEnvB
      [] e = AtomBad -> sExBad
      [] e = AtomZ   -> sLangZ

\* expression trees with exactly n operators
TreesOfSize(n) ==
    IF n = 0 THEN Atoms
    ELSE {Not(e) : e \in TreesOfSize(n - 1)} \cup
         UNION {UNION {{And(a, b), Or(a, b)} : a \in TreesOfSize(k), b \in TreesOfSize(n - 1 - k)}
                : k \in 0..(n - 1)}

\* the guards `A && !B || C` and `A || B && C`, and guards whose two operands
\* fail to evaluate with different errors
ExampleTrees ==
    {Or(And(AtomA, Not(AtomB)), AtomZ), Or(AtomA, And(AtomB, AtomZ)),
     And(AtomBad, AtomZ), And(AtomZ, AtomBad), Or(AtomBad, AtomZ), Or(AtomZ, AtomBad)}

Trees == UNION {TreesOfSize(n) : n \in 0..MaxOps} \cup ExampleTrees

Styles == {"tight", "spaced"}
BinOp(op, style) == IF style = "spaced" THEN <<" ">> \o op \o <<" ">> ELSE op

\* OrExpr := AndExpr ( '||' AndExpr )*, AndExpr := NotExpr ( '&&' NotExpr )*,
\* NotExpr := '!' NotExpr | Primary, Primary := '(' OrExpr ')' | matcher:
\* each tree is written with the parentheses the grammar makes necessary
PrintPrimary(e, style) ==
    IF e.t = "Matcher" THEN AtomText(e)
    ELSE <<"(">> \o PrintOr(e, style) \o <<")">>

PrintNot(e, style) ==
    IF e.t = "Not" THEN <<"!">> \o PrintNot(e.e, style) ELSE PrintPrimary(e, style)

PrintAnd(e, style) ==
    IF e.t = "And"
    THEN PrintAnd(e.a, style) \o BinOp(<<"&","&">>, style) \o PrintNot(e.b, style)
    ELSE PrintNot(e, style)

PrintOr(e, style) ==
    IF e.t = "Or"
    THEN PrintOr(e.a, style) \o BinOp(<<"|","|">>, style) \o PrintAnd(e.b, style)
    ELSE PrintAnd(e, style)

\* text left over after a complete expression
Junks == {<<"x">>, <<" ","x">>, <<")">>, <<" ">> \o sEnvB, <<" ","!">>}

\* literals: source text and the string it denotes
NameLits ==
    {[text |-> <<"A">>, dec |-> <<"A">>],
     [text |-> <<"C","I">>, dec |-> <<"C","I">>]}

ValueLits ==
    {[text |-> <<"1">>, dec |-> <<"1">>],
     [text |-> <<"\"","p"," ","q","\"">>, dec |-> <<"p"," ","q">>],
     [text |-> <<"'","p","'">>, dec |-> <<"p">>],
     [text |-> <<"\"","x","=","y","\"">>, dec |-> <<"x","=","y">>],
     [text |-> <<"\"","a","\\","t","b","\"">>, dec |-> <<"a","\t","b">>],
     [text |-> <<"r","\"","p","\\","n","\"">>, dec |-> <<"p","\\","n">>]}

Pads == {<<>>, <<" ">>}

\* text inside env( ) after a complete argument
EnvJunks == {<<"x">>, <<"B">>, <<"=","y">>, <<"\"","z","\"">>}

\* env(...) arguments with nothing in them, or with no name
EnvEmpties ==
    {[text |-> <<>>, name |-> FALSE],
     [text |-> <<" ">>, name |-> FALSE],
     [text |-> <<"=","1">>, name |-> TRUE],
     [text |-> <<"\"","\"">>, name |-> TRUE],
     [text |-> <<"'","'","=","1">>, name |-> TRUE]}

sEnvOpen == <<"e","n","v","(">>

EnvArgText(m) ==
    m.pad \o m.name.text \o m.pad \o
    (IF m.has_value THEN <<"=">> \o m.pad \o m.value.text \o m.pad ELSE <<>>)

\* what is written between a matcher keyword and its "(", and before the keyword
KwSuffixes == {<<>>, <<" ">>, <<"F","o","o">>, <<"_">>, <<"1">>}
KwPrefixes == {<<>>, <<"!">>, sEnvB \o <<"&","&">>, <<"(">>}

\* StringLike literals as written, with the string each one stands for
StringLits ==
    {[style |-> "quoted", text |-> <<"\"","p","\"">>, dec |-> <<"p">>],
     [style |-> "quoted", text |-> <<"\"","x",")","\"">>, dec |-> <<"x",")">>],
     [style |-> "quoted", text |-> <<"'",")","y","'">>, dec |-> <<")","y">>],
     [style |-> "quoted", text |-> <<"\"","x","=","y","\"">>, dec |-> <<"x","=","y">>],
     [style |-> "raw", text |-> <<"r","\"","x",")","\"">>, dec |-> <<"x",")">>],
     [style |-> "raw", text |-> <<"r","\"","x","=","y","\"">>, dec |-> <<"x","=","y">>],
     [style |-> "bare", text |-> <<"p","q">>, dec |-> <<"p","q">>],
     [style |-> "bare", text |-> <<"b","=","c">>, dec |-> <<"b","=","c">>],
     [style |-> "bare", text |-> <<"b","=">>, dec |-> <<"b","=">>]}

\* the positions of a StringLike literal
LitPositions == {kwExists, kwLang, kwEnv}

GuardMetas ==
    {[kind |-> "tree", tree |-> e, style |-> s] : e \in Trees, s \in Styles} \cup
    {[kind |-> "junk", tree |-> e, junk |-> j] : e \in TreesOfSize(0) \cup TreesOfSize(1), j \in Junks} \cup
    {[kind |-> "env", name |-> n, has_value |-> FALSE, pad |-> p] : n \in NameLits, p \in Pads} \cup
    {[kind |-> "env", name |-> n, has_value |-> TRUE, value |-> v, pad |-> p]
        : n \in NameLits, v \in ValueLits, p \in Pads} \cup
    {[kind |-> "envjunk", name |-> n, has_value |-> FALSE, pad |-> <<>>, junk |-> j]
        : n \in NameLits, j \in EnvJunks} \cup
    {[kind |-> "envjunk", name |-> n, has_value |-> TRUE, value |-> v, pad |-> <<>>, junk |-> j]
        : n \in NameLits, v \in ValueLits, j \in EnvJunks} \cup
    {[kind |-> "envempty", arg |-> a] : a \in EnvEmpties} \cup
    {[kind |-> "kw", kw |-> k, suffix |-> x, prefix |-> p]
        : k \in {kwExists, kwLang, kwEnv}, x \in KwSuffixes, p \in KwPrefixes} \cup
    {[kind |-> "lit", pos |-> k, lit |-> l, pad |-> p]
        : k \in LitPositions, l \in StringLits, p \in Pads}

GuardText(m) ==
    CASE m.kind = "tree"     -> PrintOr(m.tree, m.style)
      [] m.kind = "junk"     -> PrintOr(m.tree, "tight") \o m.junk
      [] m.kind = "env"      -> sEnvOpen \o EnvArgText(m) \o <<")">>
      [] m.kind = "envjunk"  -> sEnvOpen \o EnvArgText(m) \o <<" ">> \o m.junk \o <<")">>
      [] m.kind = "envempty" -> sEnvOpen \o m.arg.text \o <<")">>
      [] m.kind = "kw"       -> m.prefix \o m.kw \o m.suffix \o <<"(","A",")">> \o
                                (IF m.prefix = <<"(">> THEN <<")">> ELSE <<>>)
      [] m.kind = "lit"      -> m.pos \o <<"(">> \o
                                (IF m.pos = kwEnv THEN <<"A","=">> ELSE <<>>) \o
                                m.pad \o m.lit.text \o m.pad \o <<")">>

\* ------------------------------------------------------------------------
\* Specification of the guard language: parse a guard, then evaluate it
\* ------------------------------------------------------------------------
InitExpr ==
    /\ gmeta \in GuardMetas
    /\ guard = GuardText(gmeta)
    /\ gres = NoResult
    /\ evaluated = NoResult
    /\ environ = {}
    /\ files = InitFiles
    /\ shape = <<>>
    /\ src = <<>>
    /\ idx = 0
    /\ stack = <<>>
    /\ cur = <<>>
    /\ pc = "off"
    /\ result = NoResult
    /\ rendered = NoResult
    /\ CliIdle

NextExpr ==
    \/ ParseGuard
    \/ Evaluate
    \/ SetVar
    \/ RemoveVar

SpecExpr == InitExpr /\ [][NextExpr]_vars

\* ------------------------------------------------------------------------
\* Matchers against the tree under the root and the environment
\* ------------------------------------------------------------------------
MaxEntries == 3

FileWorlds == {w \in SUBSET FileEntries : Cardinality(w) <= MaxEntries}

\* the values a variable is set to: empty, two strings, bytes that are not
\* Unicode
MatchValues == {<<>>, c1, <<"1","1">>, <<"0xFF">>}
EnvWorlds == {{}} \cup {{[name |-> cA, value |-> v]} : v \in MatchValues}

\* guards of one matcher: for exists and lang, the paths of the entries the
\* pattern or the extensions of the language select
ExistsMetas ==
    {[kind |-> "exists", text |-> <<"e","x","i","s","t","s","(","a",".","r","s",")">>, arg |-> <<"a",".","r","s">>, valid |-> TRUE, paths |-> {pA}],
     [kind |-> "exists", text |-> <<"e","x","i","s","t","s","(","*",".","r","s",")">>, arg |-> <<"*",".","r","s">>, valid |-> TRUE, paths |-> {pA, pS, pB, pC, pL, pN}],
     [kind |-> "exists", text |-> <<"e","x","i","s","t","s","(","\"","*","*","/","*",".","r","s","\"",")">>, arg |-> <<"*","*","/","*",".","r","s">>, valid |-> TRUE, paths |-> {pA, pS, pB, pC, pL, pN}],
     [kind |-> "exists", text |-> <<"e","x","i","s","t","s","(","s",".","r","s",")">>, arg |-> <<"s",".","r","s">>, valid |-> TRUE, paths |-> {pS}],
     [kind |-> "exists", text |-> <<"e","x","i","s","t","s","(","?",".","r","s",")">>, arg |-> <<"?",".","r","s">>, valid |-> TRUE, paths |-> {pA, pS, pB, pC, pL}],
     [kind |-> "exists", text |-> <<"e","x","i","s","t","s","(","s","r","c","/","*",")">>, arg |-> <<"s","r","c","/","*">>, valid |-> TRUE, paths |-> {pN}],
     [kind |-> "exists", text |-> <<"e","x","i","s","t","s","(","c",".","r","s",")">>, arg |-> <<"c",".","r","s">>, valid |-> TRUE, paths |-> {pC}],
     [kind |-> "exists", text |-> <<"e","x","i","s","t","s","(","{",")">>, arg |-> <<"{">>, valid |-> FALSE, paths |-> {}]}

LangMetas ==
    {[kind |-> "lang", text |-> <<"l","a","n","g","(","r","u","s","t",")">>, arg |-> <<"r","u","s","t">>, known |-> TRUE, paths |-> {pA, pS, pB, pC, pD, pL, pN}],
     [kind |-> "lang", text |-> <<"l","a","n","g","(","u","p",")">>, arg |-> <<"u","p">>, known |-> TRUE, paths |-> {pA, pS, pB, pC, pD, pL, pN}],
     [kind |-> "lang", text |-> <<"l","a","n","g","(","d","o","t",")">>, arg |-> <<"d","o","t">>, known |-> TRUE, paths |-> {}],
     [kind |-> "lang", text |-> <<"l","a","n","g","(","t","x","t",")">>, arg |-> <<"t","x","t">>, known |-> TRUE, paths |-> {}],
     [kind |-> "lang", text |-> <<"l","a","n","g","(","z","z",")">>, arg |-> <<"z","z">>, known |-> FALSE, paths |-> {}]}

EnvMetas ==
    {[kind |-> "envm", text |-> <<"e","n","v","(","A",")">>, name |-> <<"A">>, has_value |-> FALSE, value |-> <<>>],
     [kind |-> "envm", text |-> <<"e","n","v","(","A","=","1",")">>, name |-> <<"A">>, has_value |-> TRUE, value |-> <<"1">>],
     [kind |-> "envm", text |-> <<"e","n","v","(","A","=","\"","\"",")">>, name |-> <<"A">>, has_value |-> TRUE, value |-> <<>>],
     [kind |-> "envm", text |-> <<"e","n","v","(","B",")">>, name |-> <<"B">>, has_value |-> FALSE, value |-> <<>>]}

MatchMetas == ExistsMetas \cup LangMetas \cup EnvMetas

\* a guard of one matcher is parsed, then evaluated in some tree and environment
InitMatch ==
    /\ gmeta \in MatchMetas
    /\ guard = gmeta.text
    /\ gres = NoResult
    /\ evaluated = NoResult
    /\ environ \in (IF gmeta.kind = "envm" THEN EnvWorlds ELSE {{}})
    /\ files \in (IF gmeta.kind = "envm" THEN {InitFiles} ELSE FileWorlds)
    /\ shape = <<>>
    /\ src = <<>>
    /\ idx = 0
    /\ stack = <<>>
    /\ cur = <<>>
    /\ pc = "off"
    /\ result = NoResult
    /\ rendered = NoResult
    /\ CliIdle

NextMatch ==
    \/ ParseGuard
    \/ Evaluate

SpecMatch == InitMatch /\ [][NextMatch]_vars

\* ------------------------------------------------------------------------
\* render_combined (src/src/main.rs)
\* ------------------------------------------------------------------------

\* Error::Root
RootErr(msg) == [ok |-> FALSE, kind |-> "Root", err |-> msg, arg |-> <<>>]

NoPrefix == [some |-> FALSE, s |-> <<>>]

\* a template file is missing, a directory, or a file whose text is that of a shape
MissingFile     == [kind |-> "missing"]
DirFile         == [kind |-> "dir"]
TextFile(sh)    == [kind |-> "file", shape |-> sh]

\* the file at shared_template_path: tpls.shared is [given, same, file], same
\* when paths_equal(local_path, shared_template_path)
SharedFile == IF tpls.shared.same THEN tpls.local ELSE tpls.shared.file

local_exists  == tpls.local.kind # "missing"
shared_exists == tpls.shared.given /\ SharedFile.kind # "missing"
same_path     == tpls.shared.given /\ tpls.shared.same

\* render_combined returns r
CombinedReturn(r) ==
    /\ comb' = [phase |-> "done", out |-> comb.out, res |-> r]
    /\ UNCHANGED <<src, idx, stack, cur, pc, result, shape>>

\* fs::read_to_string and the start of Template::parse on the text read
LoadTemplate(file, ph, out) ==
    IF file.kind = "dir" THEN CombinedReturn(RootErr("template read error ({path}): {e}"))
    ELSE /\ comb' = [phase |-> ph, out |-> out, res |-> NoResult]
         /\ shape' = file.shape
         /\ src' = ShapeText(file.shape)
         /\ idx' = 0
         /\ stack' = <<>>
         /\ cur' = <<>>
         /\ pc' = "scan"
         /\ result' = NoResult

\* the shared template is rendered even when its path is that of the local one
AfterLocal_ignoring_same_path(out) ==
    IF tpls.shared.given /\ SharedFile.kind # "missing"
    THEN LoadTemplate(SharedFile, "shared", out)
    ELSE CombinedReturn(Ok(out, 0))

\* render_combined, lines 191-202: the shared template, when it is given, is
\* another path and exists; else Ok(out)
AfterLocal(out) ==
    IF tpls.shared.given /\ ~same_path /\ SharedFile.kind # "missing"
    THEN LoadTemplate(SharedFile, "shared", out)
    ELSE CombinedReturn(Ok(out, 0))

\* render_combined, lines 161-187
CombinedStart ==
    /\ comb.phase = "start"
    /\ IF ~local_exists /\ ~shared_exists
       THEN CombinedReturn(RootErr("no template found: neither <project>/.agents.md nor shared template"))
       ELSE IF local_exists THEN LoadTemplate(tpls.local, "local", <<>>)
       ELSE AfterLocal(<<>>)
    /\ UNCHANGED <<environ, files, rendered, gvars, proj, found, tpls, cli, disk>>

\* out.push_str(&tpl.render(root)?) with the result r of render
CombinedAppend(r) ==
    IF ~r.ok THEN CombinedReturn(r)
    ELSE IF comb.phase = "local" THEN AfterLocal(comb.out \o r.val)
    ELSE CombinedReturn(Ok(comb.out \o r.val, 0))

\* render_combined, lines 187-188 and 198-199: Template::parse has returned
CombinedRendered ==
    /\ comb.phase \in {"local", "shared"}
    /\ pc \in {"parsed", "failed"}
    /\ IF pc = "failed" THEN CombinedReturn(result)
       ELSE CombinedAppend(render(result.val, environ, files, NoPrefix))
    /\ UNCHANGED <<environ, files, rendered, gvars, proj, found, tpls, cli, disk>>

\* the template files render_combined is run on
LocalFiles ==
    {MissingFile, DirFile, TextFile(<<>>), TextFile(<<"L">>),
     TextFile(<<"if", "L", "endif", "L">>), TextFile(<<"L", "if">>),
     TextFile(<<"L", "ifbad", "endif">>)}

SharedFiles ==
    {MissingFile, TextFile(<<>>), TextFile(<<"S">>),
     TextFile(<<"note", "if", "S", "endif">>), TextFile(<<"endif">>)}

SharedPaths ==
    {[given |-> FALSE, same |-> FALSE, file |-> MissingFile],
     [given |-> TRUE, same |-> TRUE, file |-> MissingFile]} \cup
    {[given |-> TRUE, same |-> FALSE, file |-> f] : f \in SharedFiles}

InitCombined ==
    /\ tpls \in [local : LocalFiles, shared : SharedPaths]
    /\ comb = [phase |-> "start", out |-> <<>>, res |-> NoResult]
    /\ cli = NoWorld
    /\ disk = NoWorld
    /\ environ \in {{}, {[name |-> cA, value |-> c1]}}
    /\ files = InitFiles
    /\ proj = NoWorld
    /\ found = NoResult
    /\ shape = <<>>
    /\ src = <<>>
    /\ idx = 0
    /\ stack = <<>>
    /\ cur = <<>>
    /\ pc = "off"
    /\ result = NoResult
    /\ rendered = NoResult
    /\ guard = <<>>
    /\ gmeta = NoGuard
    /\ gres = NoResult
    /\ evaluated = NoResult

NextCombined ==
    \/ CombinedStart
    \/ IfTag
    \/ EndifTag
    \/ CommentTag
    \/ TailText
    \/ Finish
    \/ CombinedRendered

SpecCombined == InitCombined /\ [][NextCombined]_vars

\* ------------------------------------------------------------------------
\* main: the output step (src/src/main.rs)
\* ------------------------------------------------------------------------
MaxRuns == 2

\* an output file that can be read, one that exists but cannot be read, and a
\* directory in its place (written to by nothing)
OutText(t)      == [kind |-> "text", text |-> t]
WriteOnlyFile   == [kind |-> "writeonly"]

\* fs::read_to_string(path).unwrap_or_default()
read_or_default(f) == IF f.kind = "text" THEN f.text ELSE <<>>

\* fs::write(path, contents): [ok, wrote, file = the file afterwards]
fs_write(f, contents) ==
    CASE f.kind = "dir"       -> [ok |-> FALSE, wrote |-> FALSE, file |-> f]
      [] f.kind = "writeonly" -> [ok |-> TRUE, wrote |-> TRUE, file |-> f]
      [] OTHER                -> [ok |-> TRUE, wrote |-> TRUE, file |-> OutText(contents)]

\* write_if_changed without the comparison
write_always(f, contents) == fs_write(f, contents)

\* write_if_changed
write_if_changed(f, contents) ==
    IF f.kind = "text" /\ f.text = contents
    THEN [ok |-> TRUE, wrote |-> FALSE, file |-> f]
    ELSE fs_write(f, contents)

\* the entries of the tree under the root that the output files make
TreeOf(d) ==
    (IF d.agents.kind = "missing" THEN {}
     ELSE {Entry(pAgents, IF d.agents.kind = "dir" THEN "dir" ELSE "file", FALSE, FALSE)})
    \cup
    (IF d.claude.kind = "missing" THEN {}
     ELSE {Entry(pClaude, "file", FALSE, FALSE)})

\* main ends: what it printed, the files it wrote, its exit
MainEnd(ph, printed, writes, d) ==
    /\ cli' = [cli EXCEPT !.phase = ph, !.printed = printed, !.writes = writes,
                          !.before = disk,
                          !.rendered = IF comb.res.ok THEN comb.res.val ELSE NoResult]
    /\ disk' = d
    /\ files' = TreeOf(d)

\* main, lines 98-115: what the write mode prints before it writes
write_mode_prints(r) ==
    IF cli.args.quiet THEN "none"
    ELSE IF read_or_default(disk.agents) # r THEN "diff"
    ELSE IF cli.args.claude /\ read_or_default(disk.claude) # r THEN "none"
    ELSE "No changes"

\* main, lines 120-127: CLAUDE.md after AGENTS.md has been handled as w1
write_claude(r, w1) ==
    IF ~cli.args.claude
    THEN MainEnd("done", write_mode_prints(r), IF w1.wrote THEN {"agents"} ELSE {},
                 [disk EXCEPT !.agents = w1.file])
    ELSE MainEnd(IF write_if_changed(disk.claude, r).ok THEN "done" ELSE "exit1",
                 write_mode_prints(r),
                 (IF w1.wrote THEN {"agents"} ELSE {}) \cup
                     (IF write_if_changed(disk.claude, r).wrote THEN {"claude"} ELSE {}),
                 [disk EXCEPT !.agents = w1.file,
                              !.claude = write_if_changed(disk.claude, r).file])

\* main, lines 116-119: AGENTS.md
write_agents(r, w1) ==
    IF ~w1.ok THEN MainEnd("exit1", write_mode_prints(r), {}, disk)
    ELSE write_claude(r, w1)

\* main, lines 73-129: render_combined has returned
MainOutput ==
    /\ cli # NoWorld /\ cli.phase = "render" /\ comb.phase = "done"
    /\ IF ~comb.res.ok THEN MainEnd("exit1", "error", {}, disk)
       ELSE IF cli.args.diff
       THEN MainEnd("done",
                    IF read_or_default(disk.agents) = comb.res.val THEN "No changes" ELSE "diff",
                    {}, disk)
       ELSE IF cli.args.stdout THEN MainEnd("done", "rendered", {}, disk)
       ELSE write_agents(comb.res.val, write_if_changed(disk.agents, comb.res.val))
    /\ UNCHANGED <<src, idx, stack, cur, pc, result, shape, rendered, environ, gvars,
                   proj, found, tpls, comb>>

\* the program is run again, with the same command line
MainAgain ==
    /\ cli # NoWorld /\ cli.phase \in {"done", "exit1"} /\ cli.run < MaxRuns
    /\ cli' = [cli EXCEPT !.run = cli.run + 1, !.phase = "render", !.printed = "none",
                          !.writes = {}, !.rendered = NoResult,
                          !.prev = [rendered |-> cli.rendered, writes |-> cli.writes,
                                    phase |-> cli.phase]]
    /\ comb' = [phase |-> "start", out |-> <<>>, res |-> NoResult]
    /\ UNCHANGED <<src, idx, stack, cur, pc, result, shape, rendered, environ, files,
                   gvars, proj, found, tpls, disk>>

\* the command lines, templates and output files main is run on; --root is
\* given, so that no project root is searched for
MainArgs == [diff : BOOLEAN, stdout : BOOLEAN, quiet : BOOLEAN, claude : BOOLEAN]

MainTemplates ==
    {TextFile(<<"L">>), TextFile(<<"ifout", "L", "endif", "note">>), TextFile(<<"text", "if">>)}

AgentsFiles == {MissingFile, DirFile, WriteOnlyFile, OutText(<<"L","\n">>), OutText(<<"x">>)}
ClaudeFiles == {MissingFile, WriteOnlyFile, OutText(<<"L","\n">>)}

InitMain ==
    /\ \E a \in MainArgs :
         cli = [args |-> a, run |-> 1, phase |-> "render", printed |-> "none",
                writes |-> {}, before |-> NoWorld, rendered |-> NoResult, prev |-> NoResult]
    /\ disk \in [agents : AgentsFiles, claude : ClaudeFiles]
    /\ files = TreeOf(disk)
    /\ \E t \in MainTemplates :
         tpls = [local |-> t, shared |-> [given |-> FALSE, same |-> FALSE, file |-> MissingFile]]
    /\ comb = [phase |-> "start", out |-> <<>>, res |-> NoResult]
    /\ environ = {}
    /\ proj = NoWorld
    /\ found = NoResult
    /\ shape = <<>>
    /\ src = <<>>
    /\ idx = 0
    /\ stack = <<>>
    /\ cur = <<>>
    /\ pc = "off"
    /\ result = NoResult
    /\ rendered = NoResult
    /\ guard = <<>>
    /\ gmeta = NoGuard
    /\ gres = NoResult
    /\ evaluated = NoResult

NextMain ==
    \/ NextCombined
    \/ MainOutput
    \/ MainAgain

SpecMain == InitMain /\ [][NextMain]_vars

\* ------------------------------------------------------------------------
\* Specification of project root detection: project_root on a start path
\* ------------------------------------------------------------------------
MaxDepth == 2

\* the directories from the root of the file system down to the start path
DirNames == <<"d1", "d2", "d3", "d4", "d5">>
ChainDir(k) == SubSeq(DirNames, 1, k)

\* what a directory holds: `.git`, `.hg` or `.svn` as a directory, `.git` as a
\* file, or none of them; `Cargo.lock` as a file, or not
Markers == [vcs : {"none", ".git/", ".hg/", ".svn/", ".git"}, lock : {"none", "file"}]

\* the start path: the directory at depth s or the file f in it, written as an
\* absolute path or relative to the working directory at depth c
StartComps(c, s, f, a) ==
    LET dir == IF a THEN ChainDir(s) ELSE SubSeq(DirNames, c + 1, s)
    IN IF f THEN Append(dir, "f")
       ELSE IF dir = <<>> /\ ~a THEN <<".">> ELSE dir

RootWorld(m, c, s, f, a) ==
    [dirs  |-> m,
     cwd   |-> ChainDir(c),
     file  |-> IF f THEN Append(ChainDir(s), "f") ELSE <<"-">>,
     start |-> PathOf(a, StartComps(c, s, f, a))]

\* the worlds with the start directory at depth s
RootWorlds(s) ==
    {RootWorld(m, c, s, f, a) :
        m \in [{ChainDir(k) : k \in 0..s} -> Markers],
        c \in 0..s, f \in BOOLEAN, a \in BOOLEAN}

\* project_root(start)
ProjectRoot ==
    /\ proj # NoWorld /\ found = NoResult
    /\ found' = project_root(proj, proj.start)
    /\ UNCHANGED <<tvars, environ, files, gvars, proj, tpls, comb, cli, disk>>

InitRoot ==
    /\ \E s \in 0..MaxDepth : proj \in RootWorlds(s)
    /\ found = NoResult
    /\ tpls = NoWorld
    /\ comb = [phase |-> "idle", out |-> <<>>, res |-> NoResult]
    /\ cli = NoWorld
    /\ disk = NoWorld
    /\ shape = <<>>
    /\ src = <<>>
    /\ idx = 0
    /\ stack = <<>>
    /\ cur = <<>>
    /\ pc = "off"
    /\ result = NoResult
    /\ rendered = NoResult
    /\ environ = {}
    /\ files = {}
    /\ guard = <<>>
    /\ gmeta = NoGuard
    /\ gres = NoResult
    /\ evaluated = NoResult

NextRoot ==
    \/ ProjectRoot

SpecRoot == InitRoot /\ [][NextRoot]_vars

\* ------------------------------------------------------------------------
\* Properties of the template parser and the renderer (under Spec)
\* ------------------------------------------------------------------------
RECURSIVE OpenAfter(_, _), RefWalk(_, _, _), RefFirstErr(_, _, _)

\* the number of `if` tags still open after the first n items of a shape
OpenAfter(sh, n) ==
    IF n = 0 THEN 0
    ELSE OpenAfter(sh, n - 1) +
         (CASE sh[n] \in {"if", "ifbad"} -> 1 [] sh[n] = "endif" -> -1 [] OTHER -> 0)

Balanced(sh) ==
    /\ \A n \in 0..Len(sh) : OpenAfter(sh, n) >= 0
    /\ OpenAfter(sh, Len(sh)) = 0

ParseReturned == pc \in {"parsed", "failed"}

\* C1: parse_template succeeds exactly when the if/endif tags of the input are
\* balanced at every prefix and in total, at any nesting depth; an endif with
\* no open if fails with "stray 'endif'", an if left open at the end of the
\* input fails with "unclosed 'if' block".
C1_BalancedIffParsed ==
    ParseReturned =>
        /\ (pc = "parsed") <=> Balanced(shape)
        /\ (\E n \in 0..Len(shape) : OpenAfter(shape, n) < 0)
              => result = Err("stray 'endif'")
        /\ ((\A n \in 0..Len(shape) : OpenAfter(shape, n) >= 0) /\ OpenAfter(shape, Len(shape)) > 0)
              => result = Err("unclosed 'if' block")

\* C1 witness: a template with an `if` nested in an `if` has been parsed
C1_Witness ==
    /\ pc = "parsed"
    /\ \E n \in 0..Len(shape) : OpenAfter(shape, n) >= 2

\* C2 (as claimed): a template without if/endif tags renders to the prefix
\* followed by the input text, character for character.
C2_VerbatimWithoutDirectives ==
    ((\A i \in 1..Len(shape) : shape[i] \in {"text", "note"}) /\ rendered # NoResult) =>
        /\ rendered.res.ok
        /\ rendered.res.val = rendered.prefix.s \o src

\* the in-order walk of a block tree: a Text block gives its text, an If block
\* the walk of its body when its guard is true and nothing otherwise
RefWalk(blocks, env, fs) ==
    Concat([i \in 1..Len(blocks) |->
        IF blocks[i].t = "Text" THEN blocks[i].s
        ELSE LET c == is_match(blocks[i].cond, env, fs)
             IN IF c.ok /\ c.val THEN RefWalk(blocks[i].body, env, fs) ELSE <<>>])

\* C3: the output of render is the prefix followed by the in-order walk of the
\* block tree, each If block contributing its whole body or nothing.
C3_RenderIsInOrderWalk ==
    (rendered # NoResult /\ rendered.res.ok) =>
        rendered.res.val =
            rendered.prefix.s \o RefWalk(result.val, rendered.env, rendered.fs)

\* C3 witness: a render with a prefix of a template whose first block is text,
\* followed by an If block with a true guard and a non-empty body
C3_Witness ==
    /\ rendered # NoResult /\ rendered.res.ok /\ rendered.prefix.some
    /\ Len(result.val) >= 2
    /\ result.val[1].t = "Text"
    /\ result.val[2].t = "If"
    /\ result.val[2].body # <<>>
    /\ is_match(result.val[2].cond, rendered.env, rendered.fs) = Ok(TRUE, 0)

\* the error of the first guard, in source order, that render reaches and that
\* fails to evaluate; NoResult when there is none
RefFirstErr(blocks, env, fs) ==
    IF blocks = <<>> THEN NoResult
    ELSE LET b == Head(blocks)
             rest == RefFirstErr(Tail(blocks), env, fs) IN
         IF b.t = "Text" THEN rest
         ELSE LET c == is_match(b.cond, env, fs) IN
              IF ~c.ok THEN c
              ELSE IF ~c.val THEN rest
              ELSE LET inner == RefFirstErr(b.body, env, fs)
                   IN IF inner # NoResult THEN inner ELSE rest

\* C7: when a guard reached during render fails to evaluate, render returns
\* that error and nothing else: no output text, nothing of the later blocks.
C7_RenderPropagatesError ==
    rendered # NoResult =>
        LET e == RefFirstErr(result.val, rendered.env, rendered.fs)
        IN e # NoResult => rendered.res = ErrArg(e.err, e.arg)

\* C7 witness: render failed on a template that starts with text
C7_Witness ==
    /\ rendered # NoResult /\ ~rendered.res.ok
    /\ result.val # <<>> /\ result.val[1].t = "Text"
    /\ rendered.res.err = "invalid exists() pattern"

\* the offset in the template text at which item i of a shape starts
ItemStart(sh, i) == Len(ShapeText(SubSeq(sh, 1, i - 1)))

\* no item after item i of the shape holds a "-->"
NoCloseAfter(sh, i) == \A j \in (i + 1)..Len(sh) : sh[j] \in OpenKinds \cup {"text"}

\* C11: when the scan reaches a "<!--" with no "-->" after it, parse_template
\* fails with the unterminated-tag error; when it reaches an `endif` tag with
\* text between the keyword and "-->", it fails with "unexpected content after
\* 'endif'"; a failing parse returns the error alone, no template.
C11_MalformedTagFails ==
    [][(pc = "scan" /\ idx < Len(src) /\ tag_start # -1) =>
          /\ \A i \in 1..Len(shape) : ItemStart(shape, i) = tag_start =>
                /\ (shape[i] \in OpenKinds /\ NoCloseAfter(shape, i))
                      => /\ pc' = "failed"
                         /\ result' = ErrArg("unterminated tag; missing '{delim}'", sClose)
                /\ shape[i] = "endifx"
                      => /\ pc' = "failed"
                         /\ result' = Err("unexpected content after 'endif'")
          /\ pc' = "failed" => (~result'.ok /\ "val" \notin DOMAIN result')]_vars

\* C11 witness: the parse failed on an unterminated tag inside an open `if`,
\* after blocks had been built
C11_Witness ==
    /\ pc = "failed"
    /\ result = ErrArg("unterminated tag; missing '{delim}'", sClose)
    /\ stack # <<>> /\ stack[1].body # <<>>

\* C23: parse_template terminates: while the cursor is inside the input, an
\* iteration of the scan loop either makes parse return an error or moves the
\* cursor forward, never past the end of the input; with the cursor at the end
\* the loop is left and parse returns.
C23_ScanAdvances ==
    [][pc = "scan" =>
          IF idx < Len(src)
          THEN \/ pc' = "failed"
               \/ pc' = "scan" /\ idx' > idx /\ idx' <= Len(src)
          ELSE pc' \in {"parsed", "failed"}]_vars

\* C23 witness: the loop has run once for every item of a template of three
\* tags, an unclosed tag last, and parse has returned
C23_Witness ==
    /\ pc = "failed" /\ Len(shape) = 3
    /\ shape[3] \in OpenKinds
    /\ idx = ItemStart(shape, 3) /\ idx > 0

\* what one render of a block tree gives in a tree and an environment: the
\* error of the first guard that fails, else the prefix and the in-order walk
RefRender(blocks, pfx, env, fs) ==
    IF RefFirstErr(blocks, env, fs) # NoResult
    THEN ErrArg(RefFirstErr(blocks, env, fs).err, RefFirstErr(blocks, env, fs).arg)
    ELSE Ok(pfx.s \o RefWalk(blocks, env, fs), 0)

\* C16: nothing is kept from one render to the next: whatever renders and
\* changes of the tree and the environment came before, the result of a render
\* is that of the template, the prefix, the tree and the environment at the
\* time of the call.
C16_RenderIsFresh ==
    rendered # NoResult =>
        rendered.res = RefRender(result.val, rendered.prefix, rendered.env, rendered.fs)

\* C16 witness: a render left the guarded block out, the file was created, and
\* the next render with the same prefix put the block in
C16_Witness ==
    /\ rendered # NoResult /\ rendered.prev # NoResult
    /\ rendered.prev.prefix = rendered.prefix
    /\ rendered.prev.res.ok /\ rendered.res.ok
    /\ Len(rendered.res.val) > Len(rendered.prev.res.val)
    /\ Entry(pA, "file", FALSE, FALSE) \in rendered.fs
    /\ rendered.env = {}

RECURSIVE RefBlocks(_, _, _), CountIf(_), NoEmptyText(_)

\* the guard an `if` item of a shape holds
CondOf(k) ==
    CASE k = "if"    -> MatcherE(EnvExists(cA))
      [] k = "ifbad" -> MatcherE(Exists(<<"{">>))

\* the `endif` item that closes the `if` item i of a shape
MatchingEndif(sh, i) ==
    CHOOSE m \in (i + 1)..Len(sh) :
        /\ OpenAfter(sh, m) = OpenAfter(sh, i - 1)
        /\ \A k \in i..(m - 1) : OpenAfter(sh, k) > OpenAfter(sh, i - 1)

\* the last item of the run of text items that starts at item i
TextRunEnd(sh, i, j) ==
    CHOOSE k \in i..j :
        /\ \A n \in i..k : sh[n] = "text"
        /\ k = j \/ sh[k + 1] # "text"

\* the block tree the items i..j of a balanced shape stand for, read off the
\* shape: a run of text is one Text block, a comment is the Text block the
\* parser keeps for it, an `if` item with its `endif` is one If block that
\* holds the tree of the items between the two
RefBlocks(sh, i, j) ==
    IF i > j THEN <<>>
    ELSE CASE sh[i] = "text" ->
                <<Text(ShapeText(SubSeq(sh, i, TextRunEnd(sh, i, j))))>> \o
                RefBlocks(sh, TextRunEnd(sh, i, j) + 1, j)
           [] sh[i] = "note" ->
                <<Text(sOpen \o <<"n"," ">> \o sClose)>> \o RefBlocks(sh, i + 1, j)
           [] OTHER ->
                <<If(CondOf(sh[i]), RefBlocks(sh, i + 1, MatchingEndif(sh, i) - 1))>> \o
                RefBlocks(sh, MatchingEndif(sh, i) + 1, j)

\* the number of If blocks in a block sequence, at any depth
CountIf(blocks) ==
    IF blocks = <<>> THEN 0
    ELSE (IF Head(blocks).t = "If" THEN 1 + CountIf(Head(blocks).body) ELSE 0) +
         CountIf(Tail(blocks))

\* no Text block of a block sequence, at any depth, is empty
NoEmptyText(blocks) ==
    \A n \in 1..Len(blocks) :
        IF blocks[n].t = "Text" THEN blocks[n].s # <<>> ELSE NoEmptyText(blocks[n].body)

\* the items of the shape the scan has gone past
Consumed == {i \in 1..Len(shape) : ItemStart(shape, i + 1) <= idx}

\* the bodies the parser holds: the current one and those of the open frames
HeldBodies == <<cur>> \o [n \in 1..Len(stack) |-> stack[n].body]

\* C21: the parsed tree is the one the tags stand for: the body of an If block
\* is the blocks between its `if` tag and its matching `endif` tag in source
\* order, what follows the `endif` comes after the If block in the enclosing
\* body; an If block exists only once its `endif` has been consumed; no Text
\* block is empty.
C21_TreeFollowsTags ==
    /\ pc = "parsed" => result.val = RefBlocks(shape, 1, Len(shape))
    /\ pc = "scan" =>
          /\ CountIf(Concat(HeldBodies)) = Cardinality({i \in Consumed : shape[i] = "endif"})
          /\ Len(stack) = Cardinality({i \in Consumed : shape[i] \in {"if", "ifbad"}})
                            - Cardinality({i \in Consumed : shape[i] = "endif"})
    /\ pc \in {"scan", "parsed"} => NoEmptyText(Concat(HeldBodies))

\* C21 witness: a template has been parsed to an If block whose body is an If
\* block followed by the text after the inner `endif`
C21_Witness ==
    /\ pc = "parsed" /\ Len(result.val) = 1
    /\ result.val[1].t = "If" /\ Len(result.val[1].body) = 2
    /\ result.val[1].body[1].t = "If"
    /\ result.val[1].body[2].t = "Text"

\* ------------------------------------------------------------------------
\* Properties of nested guards (under SpecNested)
\* ------------------------------------------------------------------------
RECURSIVE NestDepth(_, _)

\* the number of blocks open after the first n items of a shape
NestDepth(sh, n) ==
    IF n = 0 THEN 0
    ELSE NestDepth(sh, n - 1) +
         (CASE sh[n] \in {"if", "ifB", "ifbad", "ifzz"} -> 1
            [] sh[n] = "endif" -> -1
            [] OTHER -> 0)

\* the `if` items whose block the item i of a parsed shape lies in
Enclosing(sh, i) ==
    {j \in 1..(i - 1) :
        /\ sh[j] \in {"if", "ifB", "ifbad", "ifzz"}
        /\ \A k \in j..(i - 1) : NestDepth(sh, k) > NestDepth(sh, j - 1)}

\* the guard of an `if` item evaluates to true in the environment
GuardTrue(k, env) ==
    \/ k = "if"  /\ \E e \in env : e.name = cA /\ e.value # <<>>
    \/ k = "ifB" /\ \E e \in env : e.name = cB /\ e.value # <<>>

\* the error the evaluation of the guard of an `if` item gives
GuardError(k) ==
    CASE k = "ifbad" -> Err("invalid exists() pattern")
      [] k = "ifzz"  -> ErrArg("unknown language: {name}", <<"z","z">>)

\* the failing guards that lie in blocks whose guards are all true
ReachedErrors(sh, env) ==
    {i \in 1..Len(sh) :
        /\ sh[i] \in {"ifbad", "ifzz"}
        /\ \A j \in Enclosing(sh, i) : GuardTrue(sh[j], env)}

\* C24: render evaluates the guard of a nested If block only when the guards
\* of all the blocks around it were true: a failing guard inside a block whose
\* guard is false does not make render fail; guards are evaluated in source
\* order, and the error render returns is that of the first failing guard it
\* reaches.
C24_NestedGuardsLazy ==
    rendered # NoResult =>
        LET errs == ReachedErrors(shape, rendered.env) IN
        IF errs = {} THEN rendered.res.ok
        ELSE rendered.res = GuardError(shape[CHOOSE i \in errs : \A j \in errs : i <= j])

\* C24 witness: with A unset, a template whose block on env(A) holds a block
\* with a failing guard has rendered without error
C24_Witness ==
    /\ rendered # NoResult /\ rendered.res.ok /\ rendered.env = {}
    /\ shape = <<"if", "ifbad", "endif", "endif">>

\* ------------------------------------------------------------------------
\* Properties of the tag dispatch (under SpecDispatch)
\* ------------------------------------------------------------------------

\* what the text after "<!--" and whitespace starts with, tag by tag
TagClass(k) ==
    CASE k \in {"if", "iftight", "ifwide", "ifdef", "ifempty"} -> "if"
      [] k \in {"endif", "endiftight", "endifs"}                -> "endif"
      [] k \in {"note", "IF", "xif", "end", "else", "empty"}    -> "other"
      [] k \in {"ifq", "ifraw", "ifenvq"}                        -> "cut"
      [] OTHER                                                  -> "text"

\* what the guard of an `if` tag, the text up to "-->", parses to
TagGuard(k) ==
    CASE k \in {"if", "iftight", "ifwide"} -> Ok(MatcherE(EnvExists(cA)), 0)
      [] k \in {"ifdef", "ifempty"}        -> Err("expected matcher or '('")

\* the step of the scan loop on the tag that is item i of the shape
TagStepIs(i) == /\ pc = "scan" /\ idx < Len(src)
                /\ tag_start # -1 /\ tag_start = ItemStart(shape, i)

\* C22: the tag is a conditional when the text after "<!--" and whitespace
\* starts with `if`, with or without whitespace around the keyword, and its
\* guard is everything up to "-->"; else it closes a block when that text
\* starts with `endif`; else the span is kept as text. No word boundary is
\* asked for: `ifdef` is a conditional with the guard `def`, `endifs` is an
\* `endif` with content after it.
C22_TagDispatch ==
    [][\A i \in 1..Len(shape) : TagStepIs(i) =>
          CASE TagClass(shape[i]) = "if" ->
                 IF TagGuard(shape[i]).ok
                 THEN /\ pc' = "scan" /\ idx' = ItemStart(shape, i + 1)
                      /\ stack' = Append(stack, [expr |-> TagGuard(shape[i]).val,
                                                  body |-> cur_text])
                      /\ cur' = <<>>
                 ELSE /\ pc' = "failed"
                      /\ result' = Err(TagGuard(shape[i]).err)
            [] TagClass(shape[i]) = "endif" ->
                 IF shape[i] = "endifs"
                 THEN pc' = "failed" /\ result' = Err("unexpected content after 'endif'")
                 ELSE IF stack = <<>>
                 THEN pc' = "failed" /\ result' = Err("stray 'endif'")
                 ELSE /\ pc' = "scan" /\ idx' = ItemStart(shape, i + 1)
                      /\ Len(stack') = Len(stack) - 1
                      /\ cur'[Len(cur')].t = "If"
            [] TagClass(shape[i]) = "other" ->
                 /\ pc' = "scan" /\ idx' = ItemStart(shape, i + 1)
                 /\ stack' = stack
                 /\ Len(cur') = Len(cur_text) + 1
                 /\ cur'[Len(cur')].t = "Text"
                 /\ starts_with(cur'[Len(cur')].s, 0, sOpen)
                 /\ starts_with(cur'[Len(cur')].s, Len(cur'[Len(cur')].s) - 3, sClose)
            [] TagClass(shape[i]) = "cut" ->
                 \/ pc' = "failed"
                 \/ pc' = "scan" /\ Len(stack') = Len(stack) + 1 /\ cur' = <<>>
            [] OTHER -> FALSE]_vars

\* C22 witness: `<!--ifenv(A)-->` opened a block and `<!--endif-->` closed it
C22_Witness ==
    /\ pc = "parsed" /\ shape = <<"iftight", "endiftight">>
    /\ result.val = <<If(MatcherE(EnvExists(cA)), <<>>)>>

\* the offset in a tag's text of its first "-->"
FirstCloseIn(t) ==
    CHOOSE p \in 0..(Len(t) - 3) :
        /\ SubSeq(t, p + 1, p + 3) = sClose
        /\ \A q \in 0..(p - 1) : SubSeq(t, q + 1, q + 3) # sClose

\* the offset in an `if` tag's text at which the keyword ends
KeywordEnd(k) ==
    CASE k = "iftight" -> 6
      [] k = "ifwide"  -> 8
      [] OTHER         -> 7

\* the guard text of an `if` tag: from the keyword to the first "-->"
CutGuard(k) == SubSeq(ItemText(k), KeywordEnd(k) + 1, FirstCloseIn(ItemText(k)))

\* what the guards cut inside a literal come to
CutResult(k) ==
    CASE k = "ifq"    -> Err("unterminated string")
      [] k = "ifraw"  -> Err("unterminated raw string")
      [] k = "ifenvq" -> Ok(MatcherE(EnvExists(cA)), 8)

\* C25: the guard of an `if` tag ends at the first "-->" after the keyword,
\* also when that "-->" is inside a quoted or raw string literal of the guard;
\* the expression parser is given the text cut there, and when it accepts the
\* text the scan goes on right after that "-->".
C25_GuardEndsAtFirstClose ==
    [][\A i \in 1..Len(shape) :
          (TagStepIs(i) /\ TagClass(shape[i]) \in {"if", "cut"}) =>
              /\ TagClass(shape[i]) = "cut"
                    => parse_expr(trim(CutGuard(shape[i]))) = CutResult(shape[i])
              /\ IF parse_expr(trim(CutGuard(shape[i]))).ok
                 THEN /\ pc' = "scan"
                      /\ idx' = tag_start + FirstCloseIn(ItemText(shape[i])) + 3
                      /\ stack'[Len(stack')].expr = parse_expr(trim(CutGuard(shape[i]))).val
                 ELSE /\ pc' = "failed"
                      /\ result' = parse_expr(trim(CutGuard(shape[i])))]_vars

\* C25 witness: the guard `env(A ")-->")` was cut at the "-->" inside the
\* quotes, and the rest of the tag has become text of the template
C25_Witness ==
    /\ pc = "parsed" /\ shape = <<"ifenvq", "endif">>
    /\ result.val = <<If(MatcherE(EnvExists(cA)), <<Text(<<"\"",")"," ">> \o sClose)>>)>>

\* ------------------------------------------------------------------------
\* Properties of the guard language (under SpecExpr)
\* ------------------------------------------------------------------------
RECURSIVE RefBool(_, _, _), NeverFails(_)

GuardParsed    == gres # NoResult
GuardEvaluated == evaluated # NoResult

\* C4: And/Or evaluate the left operand first; a false left operand of And and
\* a true left operand of Or decide the result whatever the right operand
\* would do, otherwise the outcome is that of the right operand, and an error
\* of the left operand is the outcome.
C4_ShortCircuit ==
    (GuardEvaluated /\ gres.val.t \in {"And", "Or"}) =>
        LET ra == is_match(gres.val.a, evaluated.env, evaluated.fs)
            rb == is_match(gres.val.b, evaluated.env, evaluated.fs)
            decides == IF gres.val.t = "And" THEN FALSE ELSE TRUE
        IN /\ ~ra.ok => evaluated.res = ra
           /\ (ra.ok /\ ra.val = decides) => evaluated.res = Ok(decides, 0)
           /\ (ra.ok /\ ra.val # decides) => evaluated.res = rb

\* C4 witness: And with a false left operand and a right operand that fails
C4_Witness ==
    /\ GuardEvaluated /\ gres.val.t = "And"
    /\ is_match(gres.val.a, evaluated.env, evaluated.fs) = Ok(FALSE, 0)
    /\ ~is_match(gres.val.b, evaluated.env, evaluated.fs).ok
    /\ evaluated.res = Ok(FALSE, 0)

\* a tree all of whose matchers evaluate without error (env matchers)
NeverFails(e) ==
    CASE e.t = "Matcher" -> e.m.k \in {"EnvExists", "EnvEquals"}
      [] e.t = "Not"     -> NeverFails(e.e)
      [] OTHER           -> NeverFails(e.a) /\ NeverFails(e.b)

\* the reference evaluator: conjunction, disjunction, negation over the truth
\* values of the matchers
RefBool(e, env, fs) ==
    CASE e.t = "Matcher" -> matcher_is_match(e.m, env, fs).val
      [] e.t = "And"     -> RefBool(e.a, env, fs) /\ RefBool(e.b, env, fs)
      [] e.t = "Or"      -> RefBool(e.a, env, fs) \/ RefBool(e.b, env, fs)
      [] e.t = "Not"     -> ~RefBool(e.e, env, fs)

\* C5: on a tree whose matchers all evaluate without error, is_match gives the
\* value of the reference boolean evaluator.
C5_AgreesWithReference ==
    (GuardEvaluated /\ NeverFails(gres.val)) =>
        evaluated.res = Ok(RefBool(gres.val, evaluated.env, evaluated.fs), 0)

\* C5 witness: an And of env matchers whose right operand is a negation has
\* evaluated to true
C5_Witness ==
    /\ GuardEvaluated
    /\ gres.val.t = "And" /\ gres.val.b.t = "Not"
    /\ NeverFails(gres.val)
    /\ evaluated.res = Ok(TRUE, 0)

\* C6: the guard parser builds the tree the grammar dictates: a tree written
\* with exactly the parentheses the grammar requires parses back to itself.
C6_GrammarTree ==
    (GuardParsed /\ gmeta.kind = "tree") => gres = Ok(gmeta.tree, Len(guard))

\* C6 witness: `env(A) && !env(B) || lang(zz)` parsed to Or(And(A, Not(B)), Z)
C6_Witness ==
    /\ GuardParsed /\ gmeta.kind = "tree" /\ gmeta.style = "spaced"
    /\ gres.ok /\ gres.val = Or(And(AtomA, Not(AtomB)), AtomZ)

\* C8: when non-whitespace text remains after a complete expression,
\* parse_expr fails with "trailing characters in expression".
C8_TrailingRejected ==
    GuardParsed =>
        /\ gmeta.kind = "junk" => gres = Err("trailing characters in expression")
        /\ LET e == parse_or(guard, 0)
           IN (e.ok /\ \E i \in (e.idx + 1)..Len(guard) : ~is_whitespace(guard[i]))
                 => gres = Err("trailing characters in expression")

\* C8 witness: a complete expression followed by other text has been refused
C8_Witness ==
    /\ GuardParsed /\ gmeta.kind = "junk" /\ gmeta.tree.t = "And"
    /\ ~gres.ok

\* C9: env(NAME) gives EnvExists(NAME), env(NAME=VALUE) gives
\* EnvEquals{NAME, VALUE}, an empty argument or an empty name is an error.
C9_EnvForms ==
    GuardParsed =>
        /\ (gmeta.kind = "env" /\ ~gmeta.has_value)
              => gres = Ok(MatcherE(EnvExists(gmeta.name.dec)), Len(guard))
        /\ (gmeta.kind = "env" /\ gmeta.has_value)
              => gres = Ok(MatcherE(EnvEquals(gmeta.name.dec, gmeta.value.dec)), Len(guard))
        /\ gmeta.kind = "envempty"
              => gres = Err(IF gmeta.arg.name THEN "empty env var name"
                            ELSE "empty env() argument")

\* C9 witness: env( CI = "p q" ) parsed to EnvEquals
C9_Witness ==
    /\ GuardParsed /\ gmeta.kind = "env" /\ gmeta.has_value /\ gmeta.pad # <<>>
    /\ gres.ok /\ gres.val.m.k = "EnvEquals" /\ gres.val.m.value = <<"p"," ","q">>

\* C10 (as claimed): text inside env( ) after the name, or after the value,
\* makes the parse fail.
C10_EnvArgExact ==
    (GuardParsed /\ gmeta.kind = "envjunk") => ~gres.ok

\* the matcher a keyword builds from the argument A
KwMatcher(kw) ==
    CASE kw = kwExists -> MatcherE(Exists(cA))
      [] kw = kwLang   -> MatcherE(Lang(cA))
      [] kw = kwEnv    -> MatcherE(EnvExists(cA))

\* the tree of a guard that holds one keyword matcher after a prefix
KwTree(m) ==
    CASE m.prefix = <<>>    -> KwMatcher(m.kw)
      [] m.prefix = <<"!">> -> Not(KwMatcher(m.kw))
      [] m.prefix = <<"(">> -> KwMatcher(m.kw)
      [] OTHER              -> And(AtomB, KwMatcher(m.kw))

\* C12: exists, lang and env are taken as matcher keywords only when the next
\* character is neither alphanumeric nor `_`; `existsFoo(A)` is not the exists
\* matcher and the guard does not parse.
C12_KeywordBoundary ==
    (GuardParsed /\ gmeta.kind = "kw") =>
        IF gmeta.suffix \in {<<>>, <<" ">>}
        THEN gres = Ok(KwTree(gmeta), Len(guard))
        ELSE gres = Err("expected matcher or '('")

\* C12 witness: `!existsFoo(A)` has been refused
C12_Witness ==
    /\ GuardParsed /\ gmeta.kind = "kw"
    /\ gmeta.kw = kwExists /\ gmeta.suffix = <<"F","o","o">> /\ gmeta.prefix = <<"!">>
    /\ ~gres.ok

\* the matcher a literal's position builds from the string s
LitMatcher(pos, s) ==
    CASE pos = kwExists -> MatcherE(Exists(s))
      [] pos = kwLang   -> MatcherE(Lang(s))
      [] pos = kwEnv    -> MatcherE(EnvEquals(cA, s))

\* C20 (as claimed): a StringLike literal stands for the same string as the
\* argument of exists( ), as the argument of lang( ) and as the value of
\* env(A= ): quoted and raw literals may hold `)` and `=`, and a bare token
\* ends only at whitespace or `)`.
C20_SameInEveryPosition ==
    (GuardParsed /\ gmeta.kind = "lit") =>
        gres = Ok(LitMatcher(gmeta.pos, gmeta.lit.dec), Len(guard))

\* what C20 claims holds in the two positions read by parse_string_like
C20_ParenPositions ==
    (GuardParsed /\ gmeta.kind = "lit" /\ gmeta.pos # kwEnv) =>
        gres = Ok(LitMatcher(gmeta.pos, gmeta.lit.dec), Len(guard))

\* ------------------------------------------------------------------------
\* Properties of the matchers (under SpecMatch)
\* ------------------------------------------------------------------------

\* the entries of a tree that are regular files, not excluded by the ignore
\* rules, and read without error
VisibleFiles(fs) == {d \in fs : d.ft = "file" /\ ~d.ignored /\ ~d.unreadable}

\* C13: exists(pattern) with a valid glob is true exactly when some regular
\* file that is not ignored and is read without error has a path, relative to
\* the root, that the pattern matches; directories, ignored files and entries
\* that fail to be read never make it true.
C13_ExistsRegularFile ==
    (GuardEvaluated /\ gmeta.kind = "exists" /\ gmeta.valid) =>
        /\ gres.val = MatcherE(Exists(gmeta.arg))
        /\ evaluated.res = Ok(\E d \in VisibleFiles(evaluated.fs) : d.path \in gmeta.paths, 0)

\* C13 witness: exists(*.rs) is false in a tree that holds a directory, an
\* ignored file and an unreadable entry whose paths all match
C13_Witness ==
    /\ GuardEvaluated /\ gmeta.kind = "exists" /\ gmeta.arg = <<"*",".","r","s">>
    /\ evaluated.fs = {Entry(pS, "dir", FALSE, FALSE), Entry(pB, "file", TRUE, FALSE),
                       Entry(pC, "file", FALSE, TRUE)}
    /\ evaluated.res = Ok(FALSE, 0)

C15_EnvMatchers ==
    (GuardEvaluated /\ gmeta.kind = "envm") =>
        LET held == {e \in evaluated.env : e.name = gmeta.name /\ is_unicode(e.value)} IN
        /\ evaluated.res.ok
        /\ ~gmeta.has_value => evaluated.res.val = (\E e \in held : e.value # <<>>)
        /\ gmeta.has_value => evaluated.res.val = (\E e \in held : e.value = gmeta.value)

\* C15 witness: env(A) is false while A is set to the empty string
C15_Witness ==
    /\ GuardEvaluated /\ gmeta.kind = "envm" /\ ~gmeta.has_value /\ gmeta.name = cA
    /\ evaluated.env = {[name |-> cA, value |-> <<>>]}
    /\ evaluated.res = Ok(FALSE, 0)

\* ------------------------------------------------------------------------
\* Properties of project root detection (under SpecRoot)
\* ------------------------------------------------------------------------

\* the directory project_root starts from: the start path, or the directory
\* that holds it when it is a file
StartDir(w) ==
    IF Resolve(w, w.start) = w.file
    THEN SubSeq(w.file, 1, Len(w.file) - 1)
    ELSE Resolve(w, w.start)

\* the depths of the directories from the root down to d that satisfy has
DepthsWith(w, d, has(_)) == {k \in 0..Len(d) : has(w.dirs[SubSeq(d, 1, k)])}

Deepest(S) == CHOOSE k \in S : \A j \in S : j <= k

\* the root the claim describes: the nearest directory, from the start
\* directory upwards, that holds a VCS directory; when there is none, the
\* nearest that holds a Cargo.lock file; -1 when there is neither
NearestRoot(w) ==
    LET d    == StartDir(w)
        vcs  == DepthsWith(w, d, LAMBDA m : m.vcs \in {".git/", ".hg/", ".svn/"})
        lock == DepthsWith(w, d, LAMBDA m : m.lock = "file")
    IN IF vcs # {} THEN Deepest(vcs) ELSE IF lock # {} THEN Deepest(lock) ELSE -1

\* C17 (as claimed): project_root returns the nearest directory, from the
\* start path upwards, that holds a `.git`, `.hg` or `.svn` directory; when no
\* directory above the start path holds one, the nearest that holds a
\* Cargo.lock file; when neither exists, Error::Root "project root not found".
C17_NearestMarkedAncestor ==
    found # NoResult =>
        IF NearestRoot(proj) = -1
        THEN ~found.ok /\ found.kind = "Root" /\ found.err = "project root not found"
        ELSE /\ found.ok
             /\ Resolve(proj, found.val) = SubSeq(StartDir(proj), 1, NearestRoot(proj))

\* the same for a start path that is absolute
C17_AbsoluteStart ==
    (found # NoResult /\ proj.start.abs) =>
        IF NearestRoot(proj) = -1
        THEN ~found.ok /\ found.kind = "Root" /\ found.err = "project root not found"
        ELSE /\ found.ok
             /\ Resolve(proj, found.val) = SubSeq(StartDir(proj), 1, NearestRoot(proj))

\* ------------------------------------------------------------------------
\* Properties of render_combined (under SpecCombined)
\* ------------------------------------------------------------------------
RECURSIVE RefOut(_, _, _, _)

\* what the text of a well-formed shape renders to: the text items outside
\* every `if env(A)` block whose guard is false; a comment comes out as
\* Template::render gives it
RefOut(sh, i, conds, env) ==
    IF i > Len(sh) THEN <<>>
    ELSE CASE sh[i] = "if"    -> RefOut(sh, i + 1, Append(conds, \E e \in env : e.name = cA /\ e.value # <<>>), env)
           [] sh[i] = "endif" -> RefOut(sh, i + 1, SubSeq(conds, 1, Len(conds) - 1), env)
           [] OTHER ->
                (IF \A k \in 1..Len(conds) : conds[k]
                 THEN (IF sh[i] = "note" THEN sOpen \o <<"n"," ">> \o sClose ELSE ItemText(sh[i]))
                 ELSE <<>>) \o RefOut(sh, i + 1, conds, env)

\* the error a template file makes parse or render fail with, if any
RefFileErr(f) ==
    CASE f.shape = <<"L", "if">>             -> Err("unclosed 'if' block")
      [] f.shape = <<"L", "ifbad", "endif">> -> Err("invalid exists() pattern")
      [] f.shape = <<"endif">>               -> Err("stray 'endif'")
      [] OTHER                               -> NoResult

CombinedDone == comb.phase = "done"

\* the files render_combined renders: the local template when it exists, then
\* the shared template when it is given, exists and is another file
RenderedFiles ==
    (IF local_exists THEN <<tpls.local>> ELSE <<>>) \o
    (IF shared_exists /\ ~tpls.shared.same THEN <<tpls.shared.file>> ELSE <<>>)

\* C18: render_combined returns the rendering of <root>/.agents.md, when it
\* exists, followed by the rendering of the shared template, when it exists;
\* a shared path that is the local path is rendered once; when one of the two
\* is missing the other is rendered alone; when neither exists the result is
\* Error::Root "no template found". A template that fails to parse or to
\* render makes the whole call fail with its error.
C18_LocalThenShared ==
    (CombinedDone /\ \A n \in 1..Len(RenderedFiles) : RenderedFiles[n].kind = "file") =>
        LET bad == {n \in 1..Len(RenderedFiles) : RefFileErr(RenderedFiles[n]) # NoResult} IN
        IF RenderedFiles = <<>>
        THEN /\ ~comb.res.ok /\ comb.res.kind = "Root"
             /\ comb.res.err = "no template found: neither <project>/.agents.md nor shared template"
        ELSE IF bad # {}
        THEN comb.res = RefFileErr(RenderedFiles[CHOOSE n \in bad : \A k \in bad : n <= k])
        ELSE comb.res = Ok(Concat([n \in 1..Len(RenderedFiles) |->
                                     RefOut(RenderedFiles[n].shape, 1, <<>>, environ)]), 0)

\* C18 witness: the shared path is the local path and the template has been
\* rendered once
C18_Witness ==
    /\ CombinedDone
    /\ tpls.shared.given /\ tpls.shared.same
    /\ tpls.local = TextFile(<<"L">>)
    /\ comb.res = Ok(<<"L","\n">>, 0)

\* ------------------------------------------------------------------------
\* Properties of the output step of main (under SpecMain)
\* ------------------------------------------------------------------------
MainEnded == cli # NoWorld /\ cli.phase \in {"done", "exit1"}

\* the output file a name stands for, as main found it
FileBefore(n) == IF n = "agents" THEN cli.before.agents ELSE cli.before.claude

\* a file is written only in write mode, and only when it could not be read
\* or held another text than the rendered one; --diff writes nothing
WritesOnlyWhenChanged ==
    /\ \A n \in cli.writes :
          /\ ~cli.args.diff /\ ~cli.args.stdout
          /\ FileBefore(n).kind # "text" \/ FileBefore(n).text # cli.rendered
    /\ cli.args.diff => (cli.writes = {} /\ disk = cli.before)

\* C19 (as claimed): an output file is written only when neither --diff nor
\* --stdout is given and its content differs from the rendered text or it
\* cannot be read; --diff never writes; a second run with the same inputs
\* writes nothing.
C19_WriteOnlyWhenChanged ==
    MainEnded =>
        /\ WritesOnlyWhenChanged
        /\ cli.run >= 2 => cli.writes = {}

\* C19 (amended): the first two parts as claimed; a second run writes nothing
\* when it renders the text the run before it rendered and can read every
\* output file it compares.
C19_WriteOnlyWhenChanged_Amended ==
    MainEnded =>
        /\ WritesOnlyWhenChanged
        /\ (/\ cli.run >= 2
            /\ cli.prev.phase = "done"
            /\ cli.rendered = cli.prev.rendered
            /\ cli.before.agents.kind = "text"
            /\ cli.args.claude => cli.before.claude.kind = "text")
              => cli.writes = {}

\* C19 witness: the first run wrote AGENTS.md and CLAUDE.md, the second run
\* has ended and wrote nothing
C19_Witness ==
    /\ MainEnded /\ cli.run = 2 /\ cli.phase = "done"
    /\ cli.prev.writes = {"agents", "claude"}
    /\ cli.writes = {}
    /\ disk.agents = OutText(cli.rendered)

====
